---- MODULE Spec2Model ----
(***************************************************************************)
(* Model of the quantitative engine of schedule-risk-backend:              *)
(*   core/digital_twin.py, core/mc_forecaster.py, core/cache_service.py,   *)
(*   core/logic_version.py, core/uncertainty_modulator.py,                 *)
(*   core/forensic_forecast.py, core/risk_model.py, core/ml_risk_model.py. *)
(*                                                                         *)
(* Units.  Durations and times are integers in thousandths of a day, so    *)
(* the critical-path tolerance 0.01 day is Eps = 10 and one day is         *)
(* Day = 100 * Eps.  Python's None is the empty sequence and a present     *)
(* Optional value v is <<v>>.  Probabilities, ratios and weights are in     *)
(* hundredths (Pct); risk scores are in hundredths of a point (Point).     *)
(***************************************************************************)
EXTENDS Integers, Sequences, FiniteSets, TLC

VARIABLES
    \* ---- one critical-path computation (SpecCPM) ----
    cpm_pc,                 \* "new" | "built" | "drawn" | "computed" | "raised"
    cpm_activities,         \* the activity list handed to DigitalTwin(...)
    cpm_twin,               \* the constructed twin (a sequence of 0 or 1 twins)
    simulated_durations,    \* activity id -> drawn duration of the current run
    project_duration,       \* result of compute_critical_path_length
    critical_activities,    \* result of compute_critical_path_activities
    cpm_times,              \* the earliest/latest dictionaries of that call
    cpm_exc                 \* the exception that escaped, "" when none

cpmVars == <<cpm_pc, cpm_activities, cpm_twin, simulated_durations,
             project_duration, critical_activities, cpm_times, cpm_exc>>

VARIABLES
    \* ---- compute_forensic_forecast building its parameter map (SpecMod) ----
    mod_pc,                 \* "start" | "looping" | "done"
    mod_activities,         \* the activities argument
    enriched_features,      \* activity id -> features dictionary
    risk_archetypes,        \* activity id -> archetype characteristics
    topology_metrics,       \* activity id -> topology metrics of that activity
    skill_analysis,         \* skill analysis results
    uncertainty_params_map, \* activity id -> parameters, as built so far
    mod_call                \* arguments of the latest modulate_uncertainty call

modVars == <<mod_pc, mod_activities, enriched_features, risk_archetypes,
             topology_metrics, skill_analysis, uncertainty_params_map, mod_call>>

VARIABLES
    \* ---- DigitalTwin(...) then monte_carlo_forecast(...) calls (SpecMC) ----
    mc_pc,                  \* "new" | "built" | "running" | "returned" | "raised"
    mc_activities,          \* the activity list handed to DigitalTwin(...)
    mc_twin,                \* the constructed twin (a sequence of 0 or 1 twins)
    mc_params,              \* the uncertainty_params_map argument (None or a dict)
    num_simulations,        \* the num_simulations argument
    rng,                    \* state of numpy's global generator
    project_durations,      \* accumulator: project duration of every run so far
    criticality_counts,     \* accumulator: activity id -> runs in which it was critical
    mc_forecast,            \* the dict returned by the latest call (0 or 1 of them)
    mc_exc,                 \* the exception that escaped, "" when none
    mc_warnings,            \* warnings.warn messages of the current call
    mc_start_rng,           \* generator state when the current call started
    mc_run,                 \* iterations of  for _ in range(num_simulations)  done
    mc_history              \* start state and forecast of every completed call

mcVars == <<mc_pc, mc_activities, mc_twin, mc_params, num_simulations, rng,
            project_durations, criticality_counts, mc_forecast, mc_exc,
            mc_warnings, mc_start_rng, mc_run, mc_history>>

VARIABLES
    \* ---- one project served by the forecast endpoint (SpecCache) ----
    db_activities,          \* the project's activity rows in the database
    DIGITAL_TWINS,          \* digital_twin.py:10, project id -> twin
    forecast_cache,         \* the project's forecast_cache row (0 or 1 of them)
    cache_source,           \* history: the activities the cached forecast's twin was built from
    response,               \* outcome of the request just handled, if it was get_forecast
    twin_call,              \* argument and result of the latest get_or_build_twin call
    requests                \* requests and saves handled so far

cacheVars == <<db_activities, DIGITAL_TWINS, forecast_cache, cache_source, response, twin_call,
               requests>>

VARIABLES
    \* ---- the scoring loop of compute_project_risks (SpecRisk) ----
    risk_pc,                \* "scoring" | "returned" | "raised"
    risk_model,             \* the model in use: "rule" | "hybrid"
    ml_weight,              \* HybridRiskModel.ml_weight, in hundredths
    rule_weight,            \* HybridRiskModel.rule_weight, in hundredths
    ml_available,           \* HybridRiskModel.ml_available
    is_trained,             \* MLRiskModel.is_trained of the hybrid's ml_model
    ML_FALLBACK_TO_RULE_BASED, \* config.py:59
    all_features,           \* the feature dictionaries of the project's activities
    risks                   \* the risk entries appended so far

riskVars == <<risk_pc, risk_model, ml_weight, rule_weight, ml_available, is_trained,
              ML_FALLBACK_TO_RULE_BASED, all_features, risks>>

VARIABLES
    \* ---- a forecast of a project with missing durations (SpecDur) ----
    dur_pc,                 \* "new" | "started" | "drawn"
    dur_activities,         \* the activities of the twin
    dur_params,             \* the uncertainty_params_map argument (None or a dict)
    dur_rng,                \* state of numpy's global generator when the call started
    dur_warnings,           \* warnings.warn messages of the call
    dur_drawn               \* the durations drawn for the first run, and the state left

durVars == <<dur_pc, dur_activities, dur_params, dur_rng, dur_warnings, dur_drawn>>

VARIABLES
    \* ---- loading a batch of input records (SpecLoad) ----
    load_pc,                \* "new" | "loaded" | "raised"
    load_rows,              \* the input records, in order
    load_result             \* the call made and what it returned or raised

loadVars == <<load_pc, load_rows, load_result>>

VARIABLES
    \* ---- clustering the activities into risk archetypes (SpecCluster) ----
    cl_pc,                  \* "new" | "done"
    cl_features,            \* all_features, one feature dict per activity
    cl_kmeans,              \* what KMeans.fit_predict did when it was called
    cl_result               \* what cluster_activities returned or raised

clusterVars == <<cl_pc, cl_features, cl_kmeans, cl_result>>

VARIABLES
    \* ---- the skill-constraint analysis (SpecSkill) ----
    sk_pc,                  \* "new" | "done"
    sk_activities,          \* the activities handed to check_skill_overload
    sk_result               \* the dict it returned

skillVars == <<sk_pc, sk_activities, sk_result>>

VARIABLES
    \* ---- the numeric features of one activity (SpecFeat) ----
    feat_pc,
    feat_activity,
    feat_reference,
    feat_result

featVars == <<feat_pc, feat_activity, feat_reference, feat_result>>

VARIABLES
    \* ---- scoring one feature set twice (SpecTwice) ----
    tw_pc,
    tw_given,
    tw_f,
    tw_project_features,
    tw_scores

twiceVars == <<tw_pc, tw_given, tw_f, tw_project_features, tw_scores>>

VARIABLES
    \* ---- building the dependency graph (SpecGraph) ----
    graph_pc,
    graph_activities,
    graph_twin

graphVars == <<graph_pc, graph_activities, graph_twin>>

VARIABLES
    \* ---- drawing the duration of one activity (SpecSample) ----
    sm_pc,
    sm_activity,
    sm_params,
    sm_rng,
    sm_drawn

sampleVars == <<sm_pc, sm_activity, sm_params, sm_rng, sm_drawn>>

VARIABLES
    \* ---- the two forecast endpoints and save_activities, step by step (SpecEndpoint) ----
    ep_db,
    ep_twins,
    ep_cache,
    ep_ghost,
    ep_req,
    ep_response,
    ep_steps

endpointVars == <<ep_db, ep_twins, ep_cache, ep_ghost, ep_req, ep_response, ep_steps>>

VARIABLES
    \* ---- GET risks with its cache row (SpecRisksApi) ----
    ra_project,
    ra_cache,
    ra_response,
    ra_requests

risksApiVars == <<ra_project, ra_cache, ra_response, ra_requests>>

VARIABLES
    \* ---- compute_features walking the critical successors (SpecDepth) ----
    dp_project,
    dp_activity,
    dp_pending,
    dp_stack,
    dp_result,
    dp_pc

depthVars == <<dp_project, dp_activity, dp_pending, dp_stack, dp_result, dp_pc>>

VARIABLES
    \* ---- the resource-overload score of two activities (SpecOverload) ----
    ov_pc,
    ov_features,
    ov_scores

overloadVars == <<ov_pc, ov_features, ov_scores>>

vars == <<cpmVars, modVars, mcVars, cacheVars, riskVars, durVars, loadVars, clusterVars, skillVars, featVars, twiceVars, graphVars, sampleVars, endpointVars, risksApiVars, depthVars, overloadVars>>

\* the variables outside each part
exceptCpm == <<modVars, mcVars, cacheVars, riskVars, durVars, loadVars, clusterVars, skillVars, featVars, twiceVars, graphVars, sampleVars, endpointVars, risksApiVars, depthVars, overloadVars>>

exceptMod == <<cpmVars, mcVars, cacheVars, riskVars, durVars, loadVars, clusterVars, skillVars, featVars, twiceVars, graphVars, sampleVars, endpointVars, risksApiVars, depthVars, overloadVars>>

exceptMc == <<cpmVars, modVars, cacheVars, riskVars, durVars, loadVars, clusterVars, skillVars, featVars, twiceVars, graphVars, sampleVars, endpointVars, risksApiVars, depthVars, overloadVars>>

exceptCache == <<cpmVars, modVars, mcVars, riskVars, durVars, loadVars, clusterVars, skillVars, featVars, twiceVars, graphVars, sampleVars, endpointVars, risksApiVars, depthVars, overloadVars>>

exceptRisk == <<cpmVars, modVars, mcVars, cacheVars, durVars, loadVars, clusterVars, skillVars, featVars, twiceVars, graphVars, sampleVars, endpointVars, risksApiVars, depthVars, overloadVars>>

exceptDur == <<cpmVars, modVars, mcVars, cacheVars, riskVars, loadVars, clusterVars, skillVars, featVars, twiceVars, graphVars, sampleVars, endpointVars, risksApiVars, depthVars, overloadVars>>

exceptLoad == <<cpmVars, modVars, mcVars, cacheVars, riskVars, durVars, clusterVars, skillVars, featVars, twiceVars, graphVars, sampleVars, endpointVars, risksApiVars, depthVars, overloadVars>>

exceptCluster == <<cpmVars, modVars, mcVars, cacheVars, riskVars, durVars, loadVars, skillVars, featVars, twiceVars, graphVars, sampleVars, endpointVars, risksApiVars, depthVars, overloadVars>>

exceptSkill == <<cpmVars, modVars, mcVars, cacheVars, riskVars, durVars, loadVars, clusterVars, featVars, twiceVars, graphVars, sampleVars, endpointVars, risksApiVars, depthVars, overloadVars>>

exceptFeat == <<cpmVars, modVars, mcVars, cacheVars, riskVars, durVars, loadVars, clusterVars, skillVars, twiceVars, graphVars, sampleVars, endpointVars, risksApiVars, depthVars, overloadVars>>

exceptTwice == <<cpmVars, modVars, mcVars, cacheVars, riskVars, durVars, loadVars, clusterVars, skillVars, featVars, graphVars, sampleVars, endpointVars, risksApiVars, depthVars, overloadVars>>

exceptGraph == <<cpmVars, modVars, mcVars, cacheVars, riskVars, durVars, loadVars, clusterVars, skillVars, featVars, twiceVars, sampleVars, endpointVars, risksApiVars, depthVars, overloadVars>>

exceptSample == <<cpmVars, modVars, mcVars, cacheVars, riskVars, durVars, loadVars, clusterVars, skillVars, featVars, twiceVars, graphVars, endpointVars, risksApiVars, depthVars, overloadVars>>

exceptEndpoint == <<cpmVars, modVars, mcVars, cacheVars, riskVars, durVars, loadVars, clusterVars, skillVars, featVars, twiceVars, graphVars, sampleVars, risksApiVars, depthVars, overloadVars>>

exceptRisksApi == <<cpmVars, modVars, mcVars, cacheVars, riskVars, durVars, loadVars, clusterVars, skillVars, featVars, twiceVars, graphVars, sampleVars, endpointVars, depthVars, overloadVars>>

exceptDepth == <<cpmVars, modVars, mcVars, cacheVars, riskVars, durVars, loadVars, clusterVars, skillVars, featVars, twiceVars, graphVars, sampleVars, endpointVars, risksApiVars, overloadVars>>

exceptOverload == <<cpmVars, modVars, mcVars, cacheVars, riskVars, durVars, loadVars, clusterVars, skillVars, featVars, twiceVars, graphVars, sampleVars, endpointVars, risksApiVars, depthVars>>

-----------------------------------------------------------------------------
(* Bounds and units *)

\* mc_forecaster.py:232  abs(es - ls) < 0.01, in thousandths of a day
Eps == 10

Day == 100 * Eps

\* number of activities of the largest project explored
MaxActs == 3

\* activity identifiers, in the order the input lists them
ActIds == <<"A", "B", "C", "D">>

\* a predecessor reference that resolves to no activity
Dangling == "X"

-----------------------------------------------------------------------------
(* Python values *)

None == <<>>

Some(v) == <<v>>

\* truthiness of an Optional[float]: None and 0.0 are falsy
Truthy(x) == x # <<>> /\ x[1] # 0

\* Python's  x or y
OrElse(x, y) == IF Truthy(x) THEN x ELSE y

Max(S) == CHOOSE m \in S : \A x \in S : x <= m

Min(S) == CHOOSE m \in S : \A x \in S : m <= x

Abs(x) == IF x < 0 THEN 0 - x ELSE x

\* dict.get(k, default) on a function used as a dictionary
Get(f, k, default) == IF k \in DOMAIN f THEN f[k] ELSE default

EmptyDict == [k \in {} |-> 0]

Range(s) == {s[i] : i \in 1..Len(s)}

\* a value that may or may not be a dict (isinstance(x, dict))
PyDict(d) == [isdict |-> TRUE, items |-> d]

NotADict == [isdict |-> FALSE, items |-> EmptyDict]

\* outcome of a call: a returned value or an escaped exception
Return(v) == [raised |-> FALSE, exc |-> "", value |-> v]

Raise(e) == [raised |-> TRUE, exc |-> e, value |-> <<>>]

-----------------------------------------------------------------------------
(* Each specification exercises one part of the engine; the others are idle *)

NoTimes == [earliest_start |-> EmptyDict, earliest_finish |-> EmptyDict,
            latest_start |-> EmptyDict, latest_finish |-> EmptyDict]

\* no critical-path computation is in progress
CPMIdle ==
    /\ cpm_pc = "off"
    /\ cpm_activities = <<>>
    /\ cpm_twin = <<>>
    /\ simulated_durations = EmptyDict
    /\ project_duration = None
    /\ critical_activities = {}
    /\ cpm_times = NoTimes
    /\ cpm_exc = ""

\* compute_forensic_forecast has not been called
ModIdle ==
    /\ mod_pc = "off"
    /\ mod_activities = <<>>
    /\ enriched_features = EmptyDict
    /\ risk_archetypes = EmptyDict
    /\ topology_metrics = EmptyDict
    /\ skill_analysis = EmptyDict
    /\ uncertainty_params_map = None
    /\ mod_call = None

\* no forecast has been requested
MCIdle ==
    /\ mc_pc = "off"
    /\ mc_activities = <<>>
    /\ mc_twin = <<>>
    /\ mc_params = None
    /\ num_simulations = 0
    /\ rng = 0
    /\ project_durations = <<>>
    /\ criticality_counts = EmptyDict
    /\ mc_forecast = None
    /\ mc_exc = ""
    /\ mc_warnings = <<>>
    /\ mc_start_rng = 0
    /\ mc_run = 0
    /\ mc_history = <<>>

\* no project is stored
CacheIdle ==
    /\ db_activities = <<>>
    /\ DIGITAL_TWINS = EmptyDict
    /\ forecast_cache = None
    /\ cache_source = None
    /\ response = None
    /\ twin_call = None
    /\ requests = 0

\* no risks are being computed
RiskIdle ==
    /\ risk_pc = "off"
    /\ risk_model = "rule"
    /\ ml_weight = 0
    /\ rule_weight = 0
    /\ ml_available = FALSE
    /\ is_trained = FALSE
    /\ ML_FALLBACK_TO_RULE_BASED = TRUE
    /\ all_features = <<>>
    /\ risks = <<>>

\* no such forecast has been requested
DurIdle ==
    /\ dur_pc = "off"
    /\ dur_activities = <<>>
    /\ dur_params = None
    /\ dur_rng = 0
    /\ dur_warnings = <<>>
    /\ dur_drawn = None

\* no batch is being loaded
LoadIdle ==
    /\ load_pc = "off"
    /\ load_rows = <<>>
    /\ load_result = None

\* no clustering is under way
ClusterIdle ==
    /\ cl_pc = "off"
    /\ cl_features = <<>>
    /\ cl_kmeans = None
    /\ cl_result = None

\* no skill analysis is under way
SkillIdle ==
    /\ sk_pc = "off"
    /\ sk_activities = <<>>
    /\ sk_result = None

\* the numeric features of one activity (SpecFeat): not under way
FeatIdle ==
    /\ feat_pc = "off"
    /\ feat_activity = None
    /\ feat_reference = None
    /\ feat_result = None

\* scoring one feature set twice (SpecTwice): not under way
TwiceIdle ==
    /\ tw_pc = "off"
    /\ tw_given = None
    /\ tw_f = None
    /\ tw_project_features = None
    /\ tw_scores = <<>>

\* building the dependency graph (SpecGraph): not under way
GraphIdle ==
    /\ graph_pc = "off"
    /\ graph_activities = <<>>
    /\ graph_twin = None

\* drawing the duration of one activity (SpecSample): not under way
SampleIdle ==
    /\ sm_pc = "off"
    /\ sm_activity = None
    /\ sm_params = None
    /\ sm_rng = 0
    /\ sm_drawn = None

\* the two forecast endpoints and save_activities, step by step (SpecEndpoint): not under way
EndpointIdle ==
    /\ ep_db = <<>>
    /\ ep_twins = EmptyDict
    /\ ep_cache = None
    /\ ep_ghost = None
    /\ ep_req = <<>>
    /\ ep_response = None
    /\ ep_steps = 0

\* GET risks with its cache row (SpecRisksApi): not under way
RisksApiIdle ==
    /\ ra_project = <<>>
    /\ ra_cache = None
    /\ ra_response = None
    /\ ra_requests = 0

\* compute_features walking the critical successors (SpecDepth): not under way
DepthIdle ==
    /\ dp_project = <<>>
    /\ dp_activity = 0
    /\ dp_pending = <<>>
    /\ dp_stack = <<>>
    /\ dp_result = 0
    /\ dp_pc = "idle"

\* the resource-overload score of two activities (SpecOverload): not under way
OverloadIdle ==
    /\ ov_pc = "idle"
    /\ ov_features = <<>>
    /\ ov_scores = <<>>

-----------------------------------------------------------------------------
(* networkx exception classes, as used by the except clauses of the code.  *)
(* topological_sort signals a cycle with NetworkXUnfeasible, a subclass of *)
(* NetworkXAlgorithmError; NetworkXError is a sibling class.               *)

ExceptionBases(e) ==
    CASE e = "NetworkXUnfeasible" ->
            {"NetworkXUnfeasible", "NetworkXAlgorithmError", "NetworkXException", "Exception"}
      [] e = "NetworkXError" -> {"NetworkXError", "NetworkXException", "Exception"}
      [] e = "ValueError" -> {"ValueError", "Exception"}
      [] OTHER -> {e, "Exception"}

\* `except handler:` takes exception e iff e is an instance of handler
Catches(handler, e) == handler \in ExceptionBases(e)

-----------------------------------------------------------------------------
(* DigitalTwin: the dependency graph *)

\* str.strip() leaves nothing of an empty or blank reference
Strip(p) == IF p \in {"", " "} THEN "" ELSE p

AddNode(g, n) ==
    IF n \in Range(g.nodes) THEN g ELSE [g EXCEPT !.nodes = Append(@, n)]

\* nx.DiGraph.add_edge adds both end points as nodes when new
AddEdge(g, u, v) ==
    [AddNode(AddNode(g, u), v) EXCEPT !.edges = @ \cup {<<u, v>>}]

RECURSIVE AddPredecessors(_, _, _, _)
AddPredecessors(g, preds, i, aid) ==
    IF i > Len(preds) THEN g
    ELSE AddPredecessors(IF Strip(preds[i]) # "" THEN AddEdge(g, preds[i], aid) ELSE g,
                         preds, i + 1, aid)

RECURSIVE BuildGraph(_, _, _)
BuildGraph(g, activities, i) ==
    IF i > Len(activities) THEN g
    ELSE BuildGraph(AddPredecessors(AddNode(g, activities[i].activity_id),
                                    activities[i].predecessors, 1,
                                    activities[i].activity_id),
                    activities, i + 1)

Predecessors(g, n) == {e[1] : e \in {d \in g.edges : d[2] = n}}

Successors(g, n) == {e[2] : e \in {d \in g.edges : d[1] = n}}

\* nx.topological_sort: Kahn's algorithm by generations; it raises
\* NetworkXUnfeasible when nodes are left that all have an unprocessed predecessor
RECURSIVE TopoGenerations(_, _, _)
TopoGenerations(g, done, order) ==
    LET remaining == Range(g.nodes) \ done
        zero == {n \in remaining : Predecessors(g, n) \cap remaining = {}}
    IN  IF remaining = {} THEN Return(order)
        ELSE IF zero = {} THEN Raise("NetworkXUnfeasible")
        ELSE TopoGenerations(g, done \cup zero,
                             order \o SelectSeq(g.nodes, LAMBDA n : n \in zero))

TopologicalSort(g) == TopoGenerations(g, {}, <<>>)

CycleWarning == "Graph contains cycles. Critical path calculations may be approximate."

\* DigitalTwin.__init__ and _build
DigitalTwin(activities) ==
    LET g == BuildGraph([nodes |-> <<>>, edges |-> {}], activities, 1)
        t == TopologicalSort(g)
        twin == [activities |-> activities, graph |-> g,
                 has_cycles |-> FALSE, cycle_warning |-> None]
    IN  IF ~t.raised THEN Return(twin)
        ELSE IF Catches("NetworkXError", t.exc)
             THEN Return([twin EXCEPT !.has_cycles = TRUE,
                                      !.cycle_warning = Some(CycleWarning)])
        ELSE Raise(t.exc)

ActivityIds(activities) == {activities[i].activity_id : i \in 1..Len(activities)}

-----------------------------------------------------------------------------
(* Critical path method of mc_forecaster.py *)

\* a backward pass whose empty case was copied from the forward pass (else 0.0)
LatestFinishOf_Zero(g, node, latest_start, project_finish) ==
    IF Successors(g, node) = {} THEN 0
    ELSE Min({Get(latest_start, s, project_finish) : s \in Successors(g, node)})

\* lines 219-221: min over successors of latest_start.get(succ, project_finish)
LatestFinishOf(g, node, latest_start, project_finish) ==
    IF Successors(g, node) = {} THEN project_finish
    ELSE Min({Get(latest_start, s, project_finish) : s \in Successors(g, node)})

\* a forward pass that starts an activity after its first-finished predecessor
EarliestStartOf_Min(g, node, earliest_finish) ==
    IF Predecessors(g, node) = {} THEN 0
    ELSE Min({Get(earliest_finish, p, 0) : p \in Predecessors(g, node)})

\* lines 180-182 and 209-211: max over predecessors of earliest_finish.get(pred, 0.0)
EarliestStartOf(g, node, earliest_finish) ==
    IF Predecessors(g, node) = {} THEN 0
    ELSE Max({Get(earliest_finish, p, 0) : p \in Predecessors(g, node)})

\* the forward loop over topo_order; t holds the earliest_start/earliest_finish dicts
RECURSIVE ForwardPass(_, _, _, _, _)
ForwardPass(g, order, i, durations, t) ==
    IF i > Len(order) THEN t
    ELSE IF order[i] \notin DOMAIN durations THEN ForwardPass(g, order, i + 1, durations, t)
    ELSE LET es == EarliestStartOf(g, order[i], t.earliest_finish)
         IN  ForwardPass(g, order, i + 1, durations,
                 [t EXCEPT !.earliest_start = (order[i] :> es) @@ @,
                           !.earliest_finish = (order[i] :> es + durations[order[i]]) @@ @])

\* the backward loop over reversed(topo_order)
RECURSIVE BackwardPass(_, _, _, _, _, _)
BackwardPass(g, order, i, durations, project_finish, t) ==
    IF i < 1 THEN t
    ELSE IF order[i] \notin DOMAIN durations
         THEN BackwardPass(g, order, i - 1, durations, project_finish, t)
    ELSE LET lf == LatestFinishOf(g, order[i], t.latest_start, project_finish)
         IN  BackwardPass(g, order, i - 1, durations, project_finish,
                 [t EXCEPT !.latest_finish = (order[i] :> lf) @@ @,
                           !.latest_start = (order[i] :> lf - durations[order[i]]) @@ @])

DictValues(f) == {f[k] : k \in DOMAIN f}

\* compute_critical_path_length
compute_critical_path_length(graph, simulated) ==
    LET topo == TopologicalSort(graph)
    IN  IF topo.raised
        THEN IF Catches("NetworkXError", topo.exc)
             THEN Return(IF DOMAIN simulated # {} THEN Max(DictValues(simulated)) ELSE 0)
             ELSE Raise(topo.exc)
        ELSE LET t == ForwardPass(graph, topo.value, 1, simulated, NoTimes)
             IN  Return(IF DOMAIN t.earliest_finish # {}
                        THEN Max(DictValues(t.earliest_finish)) ELSE 0)

\* the dictionaries compute_critical_path_activities fills in
CriticalPathTimes(graph, order, simulated) ==
    LET f == ForwardPass(graph, order, 1, simulated, NoTimes)
        project_finish == IF DOMAIN f.earliest_finish # {}
                          THEN Max(DictValues(f.earliest_finish)) ELSE 0
    IN  [times |-> BackwardPass(graph, order, Len(order), simulated, project_finish, f),
         project_finish |-> project_finish]

\* lines 226-233: the activities with abs(es - ls) < 0.01
CriticalSet(order, simulated, ct) ==
    {n \in Range(order) \cap DOMAIN simulated :
        Abs(Get(ct.times.earliest_start, n, 0)
            - Get(ct.times.latest_start, n, ct.project_finish)) < Eps}

\* compute_critical_path_activities; value = [critical, times]
compute_critical_path_activities(graph, simulated) ==
    LET topo == TopologicalSort(graph)
    IN  IF topo.raised
        THEN IF Catches("NetworkXError", topo.exc)
             THEN Return([critical |-> {}, times |-> NoTimes])
             ELSE Raise(topo.exc)
        ELSE LET ct == CriticalPathTimes(graph, topo.value, simulated)
             IN  Return([critical |-> CriticalSet(topo.value, simulated, ct),
                         times |-> ct.times])

-----------------------------------------------------------------------------
(* SpecCPM: one twin, any drawn duration assignment, one critical-path run *)

\* an activity record of core/models.py with the fields the engine reads
MkActivity(aid, preds, planned) ==
    [activity_id |-> aid, predecessors |-> preds, successors |-> <<>>,
     remaining_duration |-> None, planned_duration |-> planned,
     baseline_duration |-> None, risk_probability |-> 0,
     risk_delay_impact_days |-> 0, total_float |-> None]

\* predecessor lists tried for a project of n activities
PredChoices(n) ==
    {<<>>, <<Dangling>>, <<"", ActIds[1]>>, <<ActIds[1], ActIds[2]>>,
     <<Dangling, ActIds[1]>>}
        \cup {<<ActIds[i]>> : i \in 1..n}

\* activity lists of n activities A, B, ... with every choice of predecessor lists
Projects(n) ==
    {[i \in 1..n |-> MkActivity(ActIds[i], pr[i], None)] : pr \in [1..n -> PredChoices(n)]}

\* durations a run may draw: 3 and 5 days, and 5 days less the tolerance or half of it
DurChoices == {3 * Day, 5 * Day - Eps, 5 * Day - (Eps \div 2), 5 * Day}

CPMInit ==
    /\ cpm_pc = "new"
    /\ cpm_activities \in UNION {Projects(n) : n \in 1..MaxActs}
    /\ cpm_twin = <<>>
    /\ simulated_durations = EmptyDict
    /\ project_duration = None
    /\ critical_activities = {}
    /\ cpm_times = NoTimes
    /\ cpm_exc = ""
    /\ ModIdle /\ MCIdle /\ CacheIdle /\ RiskIdle /\ DurIdle /\ LoadIdle /\ ClusterIdle /\ SkillIdle /\ FeatIdle /\ TwiceIdle /\ GraphIdle /\ SampleIdle /\ EndpointIdle /\ RisksApiIdle /\ DepthIdle /\ OverloadIdle

\* twin = DigitalTwin(activities)
CPMBuildTwin ==
    /\ cpm_pc = "new"
    /\ LET r == DigitalTwin(cpm_activities)
       IN  IF r.raised
           THEN /\ cpm_pc' = "raised"
                /\ cpm_exc' = r.exc
                /\ cpm_twin' = cpm_twin
           ELSE /\ cpm_pc' = "built"
                /\ cpm_twin' = <<r.value>>
                /\ cpm_exc' = cpm_exc
    /\ UNCHANGED <<cpm_activities, simulated_durations, project_duration,
                   critical_activities, cpm_times>>
    /\ UNCHANGED exceptCpm

\* mc_forecaster.py:264-269: one duration per activity of the twin
CPMDrawDurations ==
    /\ cpm_pc = "built"
    /\ \E d \in [ActivityIds(cpm_twin[1].activities) -> DurChoices] :
            simulated_durations' = d
    /\ cpm_pc' = "drawn"
    /\ UNCHANGED <<cpm_activities, cpm_twin, project_duration,
                   critical_activities, cpm_times, cpm_exc>>
    /\ UNCHANGED exceptCpm

\* mc_forecaster.py:272-276: both critical-path calls of one run
CPMComputeRun ==
    /\ cpm_pc = "drawn"
    /\ LET len == compute_critical_path_length(cpm_twin[1].graph, simulated_durations)
           act == compute_critical_path_activities(cpm_twin[1].graph, simulated_durations)
       IN  IF len.raised \/ act.raised
           THEN /\ cpm_pc' = "raised"
                /\ cpm_exc' = IF len.raised THEN len.exc ELSE act.exc
                /\ UNCHANGED <<project_duration, critical_activities, cpm_times>>
           ELSE /\ cpm_pc' = "computed"
                /\ project_duration' = Some(len.value)
                /\ critical_activities' = act.value.critical
                /\ cpm_times' = act.value.times
                /\ cpm_exc' = cpm_exc
    /\ UNCHANGED <<cpm_activities, cpm_twin, simulated_durations>>
    /\ UNCHANGED exceptCpm

CPMNext == CPMBuildTwin \/ CPMDrawDurations \/ CPMComputeRun

SpecCPM == CPMInit /\ [][CPMNext]_vars

-----------------------------------------------------------------------------
(* Forensic modulation: risk_clustering.py, uncertainty_modulator.py and   *)
(* the loop of forensic_forecast.py.  Factors and probabilities are in     *)
(* hundredths (0.30 is 30, 1.5 is 150); a product of three factors is in   *)
(* millionths.                                                             *)

Pct == 10 * 10

\* risk_clustering.py:126-149
get_risk_archetype_characteristics(cluster_id) ==
    LET archetypes ==
            [c \in 0..3 |->
                CASE c = 0 -> [failure_probability |-> 5, variance_multiplier |-> 100,
                               mode_shift_factor |-> 0]
                  [] c = 1 -> [failure_probability |-> 15, variance_multiplier |-> 120,
                               mode_shift_factor |-> 10]
                  [] c = 2 -> [failure_probability |-> 30, variance_multiplier |-> 150,
                               mode_shift_factor |-> 20]
                  [] OTHER -> [failure_probability |-> 50, variance_multiplier |-> 200,
                               mode_shift_factor |-> 30]]
    IN  Get(archetypes, cluster_id, archetypes[0])

\* remaining_duration or planned_duration or baseline_duration or 1.0; <= 0 gives 1.0
BaseDuration(activity) ==
    LET b == OrElse(activity.remaining_duration,
                    OrElse(activity.planned_duration,
                           OrElse(activity.baseline_duration, Some(Day))))[1]
    IN  IF b <= 0 THEN Day ELSE b

\* uncertainty_modulator.py:52-56 and 72-76: d.get(key, {}) then, if a dict, .get(field, 0.0)
FeatureField(features, key, field) ==
    LET data == Get(features, key, PyDict(EmptyDict))
    IN  IF data.isdict THEN Get(data.items, field, 0) ELSE 0

TotalModeShift_Archetype(drift_mode_shift, archetype_mode_shift) == archetype_mode_shift

\* uncertainty_modulator.py:81
TotalModeShift(drift_mode_shift, archetype_mode_shift) ==
    drift_mode_shift + archetype_mode_shift

TotalFailureProb_Sum(archetype_failure_prob, cpi_failure_prob) ==
    archetype_failure_prob + cpi_failure_prob

\* uncertainty_modulator.py:87
TotalFailureProb(archetype_failure_prob, cpi_failure_prob) ==
    Max({archetype_failure_prob, cpi_failure_prob})

\* uncertainty_modulator.py:10-94; the fourth argument is indexed by activity id
modulate_uncertainty(activity, features, risk_archetype, topology, skill) ==
    LET activity_id == activity.activity_id
        drift_mode_shift == FeatureField(features, "drift_velocity", "mode_shift_factor")
        variance_increase_map == Get(skill, "variance_increase_map", EmptyDict)
        skill_variance == Get(variance_increase_map, activity_id, Pct)
        activity_topology == Get(topology, activity_id, EmptyDict)
        topology_variance == Get(activity_topology, "variance_multiplier", Pct)
        archetype_mode_shift == Get(risk_archetype, "mode_shift_factor", 0)
        archetype_variance == Get(risk_archetype, "variance_multiplier", Pct)
        archetype_failure_prob == Get(risk_archetype, "failure_probability", 0)
        cpi_failure_prob == FeatureField(features, "cost_performance", "risk_event_probability")
    IN  [mode_shift_factor |-> TotalModeShift(drift_mode_shift, archetype_mode_shift),
         variance_multiplier |-> skill_variance * topology_variance * archetype_variance,
         failure_probability |-> TotalFailureProb(archetype_failure_prob, cpi_failure_prob),
         base_duration |-> BaseDuration(activity)]

\* forensic_forecast.py:51-63: the arguments of the call made for one activity
ForensicCallArgs(activity, features_map, archetypes_map, topology_map) ==
    [activity |-> activity,
     features |-> Get(features_map, activity.activity_id, EmptyDict),
     archetype |-> Get(archetypes_map, activity.activity_id,
                       get_risk_archetype_characteristics(0)),
     topology |-> Get(topology_map, activity.activity_id, EmptyDict)]

-----------------------------------------------------------------------------
(* Sampling of activity durations: mc_forecaster.py:27-158.  numpy's global *)
(* generator is a state that every variate reads and advances; a uniform   *)
(* variate is the state r standing for r / RngMod.  Uncertainty fractions  *)
(* are in thousandths.                                                     *)

RngMod == 2 ^ 3

RngStates == 0..(RngMod - 1)

\* the generator state after one variate has been drawn
RngStep(r) == (5 * r + 3) % RngMod

\* np.random.seed(s)
SeedState(s) == s % RngMod

Frac == 10 * Pct

\* the floor 0.1 day of max(0.1, ...)
MinDuration == 10 * Eps

\* outcome of a sampling call, with the generator state it leaves behind
Drawn(v, r) == [raised |-> FALSE, exc |-> "", value |-> v, rng |-> r]

DrawFailed(e, r) == [raised |-> TRUE, exc |-> e, value |-> 0, rng |-> r]

\* np.random.triangular(left, mode, right, 1): rejects left > mode, mode > right and
\* left == right; otherwise one variate mapped through a quantile function that
\* rises from left through mode towards right
Triangular(left, mode, right, r) ==
    IF left > mode \/ mode > right \/ left = right
    THEN DrawFailed("ValueError", r)
    ELSE LET half == RngMod \div 2
             v == IF r < half
                  THEN left + ((mode - left) * r) \div half
                  ELSE mode + ((right - mode) * (r - half)) \div half
         IN  Drawn(v, RngStep(r))

\* mc_forecaster.py:119-158
simulate_activity_duration_forensic(activity, uncertainty_params, r) ==
    LET base_duration == uncertainty_params.base_duration
        mode_shift == uncertainty_params.mode_shift_factor
        variance_mult == uncertainty_params.variance_multiplier
        failure_prob == uncertainty_params.failure_probability
        modulated_mode == (base_duration * (Pct + mode_shift)) \div Pct
        modulated_uncertainty == Min({Frac \div 2, (2 * variance_mult) \div (Pct * Pct)})
        min_duration == Max({MinDuration,
                             (modulated_mode * (Frac - modulated_uncertainty)) \div Frac})
        max_duration == (modulated_mode * (Frac + modulated_uncertainty)) \div Frac
        t == Triangular(min_duration, modulated_mode, max_duration, r)
    IN  IF t.raised THEN t
        ELSE IF failure_prob > 0
        THEN LET r2 == t.rng
                 failure_mask == r2 * Pct < failure_prob * RngMod
                 r3 == RngStep(r2)
                 failure_delay == (Frac \div 2) + ((Frac \div 2) * r3) \div RngMod
             IN  IF failure_mask
                 THEN Drawn(Max({MinDuration, (t.value * (Frac + failure_delay)) \div Frac}),
                            RngStep(r3))
                 ELSE Drawn(Max({MinDuration, t.value}), r3)
        ELSE Drawn(Max({MinDuration, t.value}), t.rng)

\* mc_forecaster.py:27-91; uncertainty_params is None or a dict
simulate_activity_duration(activity, uncertainty_params, r) ==
    IF uncertainty_params # None /\ DOMAIN uncertainty_params[1] # {}
    THEN simulate_activity_duration_forensic(activity, uncertainty_params[1], r)
    ELSE LET base_duration == BaseDuration(activity)
             expected_delay ==
                (activity.risk_probability * activity.risk_delay_impact_days) \div Pct
             uncertainty_from_risk ==
                IF expected_delay > 0 /\ base_duration > 0
                THEN Min({Frac \div 2, (expected_delay * Frac) \div base_duration})
                ELSE 0
             uncertainty == Max({Frac \div 5, uncertainty_from_risk})
             min_duration == Max({MinDuration,
                                  (base_duration * (Frac - uncertainty)) \div Frac})
             max_duration == (base_duration * (Frac + uncertainty)) \div Frac
             t == Triangular(min_duration, base_duration, max_duration, r)
         IN  IF t.raised THEN t ELSE Drawn(Max({MinDuration, t.value}), t.rng)

\* mc_forecaster.py:267  uncertainty_params_map.get(activity_id) if uncertainty_params_map else None
ParamsFor(params_map, activity_id) ==
    IF params_map # None /\ DOMAIN params_map[1] # {}
        /\ activity_id \in DOMAIN params_map[1]
    THEN Some(params_map[1][activity_id])
    ELSE None

\* mc_forecaster.py:264-269: the durations of one run, drawn activity by activity
RECURSIVE DrawDurations(_, _, _, _, _)
DrawDurations(activities, params_map, i, r, acc) ==
    IF i > Len(activities) THEN Drawn(acc, r)
    ELSE LET a == activities[i]
             d == simulate_activity_duration(a, ParamsFor(params_map, a.activity_id), r)
         IN  IF d.raised THEN d
             ELSE DrawDurations(activities, params_map, i + 1, d.rng,
                    [k \in DOMAIN acc \cup {a.activity_id} |->
                        IF k = a.activity_id THEN d.value ELSE acc[k]])

-----------------------------------------------------------------------------
(* SpecMod: compute_forensic_forecast builds uncertainty_params_map *)

\* activities of the largest project whose parameters are modulated
MaxModActs == 2

\* a dictionary with an entry for some of the keys
PartialMaps(keys, values) == UNION {[ks -> values] : ks \in SUBSET keys}

FeatureChoices ==
    {[drift_velocity |-> PyDict([mode_shift_factor |-> 60]),
      cost_performance |-> PyDict([risk_event_probability |-> 15])],
     [drift_velocity |-> NotADict,
      cost_performance |-> PyDict([risk_event_probability |-> 30])],
     [drift_velocity |-> PyDict([mode_shift_factor |-> 0 - 20])]}

TopologyChoices ==
    {[betweenness_centrality |-> 60, eigenvector_centrality |-> 60,
      variance_multiplier |-> 130]}

SkillChoices(ids) ==
    {EmptyDict} \cup
        {[variance_increase_map |-> m] : m \in PartialMaps(ids, {140})}

ModInit ==
    /\ mod_pc = "start"
    /\ \E n \in 1..MaxModActs :
        LET ids == {ActIds[i] : i \in 1..n}
        IN  /\ \E planned \in {None, Some(3 * Day)} :
                    mod_activities = [i \in 1..n |-> MkActivity(ActIds[i], <<>>, planned)]
            /\ enriched_features \in PartialMaps(ids, FeatureChoices)
            /\ risk_archetypes \in PartialMaps(ids, {get_risk_archetype_characteristics(2)})
            /\ topology_metrics \in PartialMaps(ids, TopologyChoices)
            /\ skill_analysis \in SkillChoices(ids)
    /\ uncertainty_params_map = None
    /\ mod_call = None
    /\ CPMIdle /\ MCIdle /\ CacheIdle /\ RiskIdle /\ DurIdle /\ LoadIdle /\ ClusterIdle /\ SkillIdle /\ FeatIdle /\ TwiceIdle /\ GraphIdle /\ SampleIdle /\ EndpointIdle /\ RisksApiIdle /\ DepthIdle /\ OverloadIdle

\* forensic_forecast.py:48  uncertainty_params_map = {}
ModStart ==
    /\ mod_pc = "start"
    /\ mod_pc' = "looping"
    /\ uncertainty_params_map' = Some(EmptyDict)
    /\ UNCHANGED <<mod_activities, enriched_features, risk_archetypes,
                   topology_metrics, skill_analysis, mod_call>>
    /\ UNCHANGED exceptMod

\* forensic_forecast.py:50-65: one iteration of  for activity in activities
ModulateActivity ==
    /\ mod_pc = "looping"
    /\ LET done == uncertainty_params_map[1]
           i == Cardinality(DOMAIN done) + 1
           args == ForensicCallArgs(mod_activities[i], enriched_features,
                                    risk_archetypes, topology_metrics)
           params == modulate_uncertainty(args.activity, args.features, args.archetype,
                                          args.topology, skill_analysis)
           aid == mod_activities[i].activity_id
       IN  /\ uncertainty_params_map' =
                Some([k \in DOMAIN done \cup {aid} |-> IF k = aid THEN params ELSE done[k]])
           /\ mod_call' = Some(args)
           /\ mod_pc' = IF i = Len(mod_activities) THEN "done" ELSE "looping"
    /\ UNCHANGED <<mod_activities, enriched_features, risk_archetypes,
                   topology_metrics, skill_analysis>>
    /\ UNCHANGED exceptMod

ModNext == ModStart \/ ModulateActivity

SpecMod == ModInit /\ [][ModNext]_vars

-----------------------------------------------------------------------------
(* monte_carlo_forecast: mc_forecaster.py:238-340 *)

\* lines 248-252: ids whose  remaining or planned or baseline  is None or <= 0
RECURSIVE MissingDurations(_, _)
MissingDurations(activities, i) ==
    IF i > Len(activities) THEN <<>>
    ELSE LET a == activities[i]
             duration == OrElse(a.remaining_duration,
                                OrElse(a.planned_duration, a.baseline_duration))
             rest == MissingDurations(activities, i + 1)
         IN  IF duration = None \/ duration[1] <= 0
             THEN <<a.activity_id>> \o rest ELSE rest

MissingDurationWarnings_Uncapped(activities) ==
    LET missing == MissingDurations(activities, 1)
    IN  IF missing = <<>> THEN <<>>
        ELSE <<[message |-> "Activities with missing/invalid durations will use default 1.0",
                ids |-> missing]>>

\* lines 254-257: the warning, if any, with missing_durations[:5]
MissingDurationWarnings(activities) ==
    LET missing == MissingDurations(activities, 1)
    IN  IF missing = <<>> THEN <<>>
        ELSE <<[message |-> "Activities with missing/invalid durations will use default 1.0",
                ids |-> SubSeq(missing, 1, Min({5, Len(missing)}))]>>

NewProjectDurations_Keep(previous) == previous

\* line 259  project_durations = []
NewProjectDurations(previous) == <<>>

Sorted_AsGiven(a) == a

\* np.percentile orders the sample
Sorted(a) == SortSeq(a, LAMBDA x, y : x < y)

\* int(np.percentile(a, q)) for a non-empty sample of durations: linear interpolation
\* between the two nearest order statistics, then truncation to whole days
Percentile(a, q) ==
    LET srt == Sorted(a)
        n == Len(a)
        h == (n - 1) * q
        lo == (h \div Pct) + 1
        hi == Min({lo + 1, n})
        r == h % Pct
    IN  (srt[lo] * Pct + r * (srt[hi] - srt[lo])) \div (Pct * Day)

\* lines 281-340: the returned dict (fields about durations and criticality)
Forecast(durations, counts, n, params_map) ==
    [p50 |-> Percentile(durations, 50),
     p80 |-> Percentile(durations, 80),
     p90 |-> Percentile(durations, 90),
     p95 |-> Percentile(durations, 95),
     min |-> Min(Range(durations)),
     max |-> Max(Range(durations)),
     criticality_indices |-> [a \in DOMAIN counts |-> [count |-> counts[a], of |-> n]],
     num_simulations |-> n,
     forensic_modulation_applied |-> params_map # None]

\* lines 264-276: the body of one run: draw, project duration, critical set
SimulateOneRun(twin, params_map, r) ==
    CHOOSE result \in
        {IF drawn.raised
         THEN [raised |-> TRUE, exc |-> drawn.exc, rng |-> drawn.rng,
               project_duration |-> 0, critical |-> {}]
         ELSE LET len == compute_critical_path_length(twin.graph, drawn.value)
                  act == compute_critical_path_activities(twin.graph, drawn.value)
              IN  IF len.raised \/ act.raised
                  THEN [raised |-> TRUE, exc |-> IF len.raised THEN len.exc ELSE act.exc,
                        rng |-> drawn.rng, project_duration |-> 0, critical |-> {}]
                  ELSE [raised |-> FALSE, exc |-> "", rng |-> drawn.rng,
                        project_duration |-> len.value, critical |-> act.value.critical]
            : drawn \in {DrawDurations(twin.activities, params_map, 1, r, EmptyDict)}} : TRUE

CountCritical_Every(counts, critical) == [a \in DOMAIN counts |-> counts[a] + 1]

\* lines 277-279: criticality_counts[activity_id] += 1 for the ids it holds
CountCritical(counts, critical) ==
    [a \in DOMAIN counts |-> IF a \in critical THEN counts[a] + 1 ELSE counts[a]]

\* lines 262-279 as a whole: the runs still to do, from generator state r
RECURSIVE SimulateRuns(_, _, _, _, _, _)
SimulateRuns(twin, params_map, todo, r, durations, counts) ==
    IF todo = 0
    THEN [raised |-> FALSE, exc |-> "", rng |-> r, durations |-> durations, counts |-> counts]
    ELSE CHOOSE result \in
            {IF run.raised
             THEN [raised |-> TRUE, exc |-> run.exc, rng |-> run.rng,
                   durations |-> durations, counts |-> counts]
             ELSE SimulateRuns(twin, params_map, todo - 1, run.rng,
                               Append(durations, run.project_duration),
                               CountCritical(counts, run.critical))
                : run \in {SimulateOneRun(twin, params_map, r)}} : TRUE

\* monte_carlo_forecast(twin, num_simulations, uncertainty_params_map) from generator
\* state r: the returned dict, or the exception that escapes
monte_carlo_forecast(twin, n, params_map, r) ==
    CHOOSE result \in
        {IF runs.raised THEN Raise(runs.exc)
         ELSE Return(Forecast(runs.durations, runs.counts, n, params_map))
            : runs \in {SimulateRuns(twin, params_map, n, r, NewProjectDurations(<<>>),
                                     [a \in ActivityIds(twin.activities) |-> 0])}} : TRUE

-----------------------------------------------------------------------------
(* SpecMC: a caller builds a twin and asks for a forecast, then for a second *)
(* one on the same inputs, optionally reseeding numpy's generator between   *)

\* number of activities of the largest project forecast
MCActs == 2

\* largest num_simulations explored
MaxRuns == 3

\* seeds a caller passes to np.random.seed
SeedChoices == {7, 42}

\* generator states a process starts a forecast from: seeded or not
RngStartChoices == {0} \cup {SeedState(seed) : seed \in SeedChoices}

\* duration and risk-register data given to every activity of a forecast project
ActivityProfiles ==
    {[planned |-> None, risk_probability |-> 0, risk_delay_impact_days |-> 0],
     [planned |-> Some(0), risk_probability |-> 0, risk_delay_impact_days |-> 0],
     [planned |-> Some(3 * Day), risk_probability |-> 50, risk_delay_impact_days |-> 2 * Day],
     [planned |-> Some(10 * Day), risk_probability |-> 0, risk_delay_impact_days |-> 0]}

\* predecessor lists tried for a forecast project of n activities
MCPredChoices(n) == {<<>>, <<Dangling>>} \cup {<<ActIds[i]>> : i \in 1..n}

MCProjects ==
    UNION {{[i \in 1..n |->
                [MkActivity(ActIds[i], pr[i], prof.planned)
                    EXCEPT !.risk_probability = prof.risk_probability,
                           !.risk_delay_impact_days = prof.risk_delay_impact_days]]
              : pr \in [1..n -> MCPredChoices(n)], prof \in ActivityProfiles}
           : n \in 1..MCActs}

\* parameters as compute_forensic_forecast would build them for the given activities
ForensicParams(activities, ids) ==
    [aid \in ids |->
        LET a == CHOOSE x \in Range(activities) : x.activity_id = aid
        IN  modulate_uncertainty(a, CHOOSE f \in FeatureChoices : "cost_performance" \in DOMAIN f
                                        /\ f.drift_velocity.isdict,
                                 get_risk_archetype_characteristics(2),
                                 EmptyDict, EmptyDict)]

\* the uncertainty_params_map arguments tried: absent, empty, for the first activity, for all
ParamsMapChoices(activities) ==
    {None, Some(EmptyDict),
     Some(ForensicParams(activities, {activities[1].activity_id})),
     Some(ForensicParams(activities, ActivityIds(activities)))}

MCInit ==
    /\ mc_pc = "new"
    /\ mc_activities \in MCProjects
    /\ mc_params \in ParamsMapChoices(mc_activities)
    /\ num_simulations \in 1..MaxRuns
    /\ rng \in RngStartChoices
    /\ mc_twin = <<>>
    /\ project_durations = <<>>
    /\ criticality_counts = EmptyDict
    /\ mc_forecast = None
    /\ mc_exc = ""
    /\ mc_warnings = <<>>
    /\ mc_start_rng = 0
    /\ mc_run = 0
    /\ mc_history = <<>>
    /\ CPMIdle /\ ModIdle /\ CacheIdle /\ RiskIdle /\ DurIdle /\ LoadIdle /\ ClusterIdle /\ SkillIdle /\ FeatIdle /\ TwiceIdle /\ GraphIdle /\ SampleIdle /\ EndpointIdle /\ RisksApiIdle /\ DepthIdle /\ OverloadIdle

\* twin = DigitalTwin(activities)
MCBuildTwin ==
    /\ mc_pc = "new"
    /\ LET r == DigitalTwin(mc_activities)
       IN  IF r.raised
           THEN /\ mc_pc' = "raised"
                /\ mc_exc' = r.exc
                /\ mc_twin' = mc_twin
           ELSE /\ mc_pc' = "built"
                /\ mc_twin' = <<r.value>>
                /\ mc_exc' = mc_exc
    /\ UNCHANGED <<mc_activities, mc_params, num_simulations, rng, project_durations,
                   criticality_counts, mc_forecast, mc_warnings, mc_start_rng, mc_run,
                   mc_history>>
    /\ UNCHANGED exceptMc

\* the caller runs np.random.seed(s) before asking for the second forecast
MCSeed ==
    /\ mc_pc = "returned"
    /\ Len(mc_history) = 1
    /\ \E seed \in SeedChoices : rng' = SeedState(seed)
    /\ UNCHANGED <<mc_pc, mc_activities, mc_twin, mc_params, num_simulations,
                   project_durations, criticality_counts, mc_forecast, mc_exc,
                   mc_warnings, mc_start_rng, mc_run, mc_history>>
    /\ UNCHANGED exceptMc

\* mc_forecaster.py:244-260: entry of monte_carlo_forecast(twin, num_simulations, map)
MCStartForecast ==
    /\ mc_pc \in {"built", "returned"}
    /\ Len(mc_history) <= 1
    /\ mc_pc' = "running"
    /\ mc_warnings' = MissingDurationWarnings(mc_twin[1].activities)
    /\ project_durations' = NewProjectDurations(project_durations)
    /\ criticality_counts' = [a \in ActivityIds(mc_twin[1].activities) |-> 0]
    /\ mc_run' = 0
    /\ mc_start_rng' = rng
    /\ mc_forecast' = None
    /\ UNCHANGED <<mc_activities, mc_twin, mc_params, num_simulations, rng, mc_exc,
                   mc_history>>
    /\ UNCHANGED exceptMc

\* mc_forecaster.py:262-279: one iteration of  for _ in range(num_simulations)
MCSimulateRun ==
    /\ mc_pc = "running"
    /\ mc_run < num_simulations
    /\ \E run \in {SimulateOneRun(mc_twin[1], mc_params, rng)} :
           IF run.raised
           THEN /\ mc_pc' = "raised"
                /\ mc_exc' = run.exc
                /\ rng' = run.rng
                /\ UNCHANGED <<project_durations, criticality_counts, mc_run>>
           ELSE /\ project_durations' = Append(project_durations, run.project_duration)
                /\ criticality_counts' = CountCritical(criticality_counts, run.critical)
                /\ rng' = run.rng
                /\ mc_run' = mc_run + 1
                /\ UNCHANGED <<mc_pc, mc_exc>>
    /\ UNCHANGED <<mc_activities, mc_twin, mc_params, num_simulations, mc_forecast,
                   mc_warnings, mc_start_rng, mc_history>>
    /\ UNCHANGED exceptMc

\* mc_forecaster.py:281-340: percentiles, criticality indices, the returned dict
MCReturnForecast ==
    /\ mc_pc = "running"
    /\ mc_run = num_simulations
    /\ LET f == Forecast(project_durations, criticality_counts, num_simulations, mc_params)
       IN  /\ mc_forecast' = Some(f)
           /\ mc_history' = Append(mc_history, [start_rng |-> mc_start_rng, forecast |-> f])
    /\ mc_pc' = "returned"
    /\ UNCHANGED <<mc_activities, mc_twin, mc_params, num_simulations, rng,
                   project_durations, criticality_counts, mc_exc, mc_warnings,
                   mc_start_rng, mc_run>>
    /\ UNCHANGED exceptMc

MCNext ==
    MCBuildTwin \/ MCSeed \/ MCStartForecast \/ MCSimulateRun \/ MCReturnForecast

SpecMC == MCInit /\ [][MCNext]_vars

-----------------------------------------------------------------------------
(* The process-wide twin cache and the forecast cache row:                 *)
(* digital_twin.py:49-61, logic_version.py:63-137, cache_service.py:12-130 *)

\* digital_twin.py:49-61; the result carries the dictionary the call leaves behind
get_or_build_twin(twins, project_id, activities) ==
    IF project_id \in DOMAIN twins
    THEN [Return(twins[project_id]) EXCEPT !.value = [twin |-> twins[project_id], twins |-> twins]]
    ELSE LET built == DigitalTwin(activities)
         IN  IF built.raised
             THEN [Raise(built.exc) EXCEPT !.value = [twin |-> None, twins |-> twins]]
             ELSE Return([twin |-> built.value,
                          twins |-> [k \in DOMAIN twins \cup {project_id} |->
                                        IF k = project_id THEN built.value ELSE twins[k]]])

\* sorted(l): the list without its order, each element with its number of occurrences
SortedList(l) == [x \in Range(l) |-> Cardinality({i \in 1..Len(l) : l[i] = x})]

\* the fields of one activity that compute_data_hash serialises (lines 80-101)
HashedFields(a) ==
    [id |-> a.activity_id,
     planned_duration |-> a.planned_duration,
     baseline_duration |-> a.baseline_duration,
     remaining_duration |-> a.remaining_duration,
     risk_probability |-> a.risk_probability,
     risk_delay_impact_days |-> a.risk_delay_impact_days,
     predecessors |-> SortedList(a.predecessors),
     successors |-> SortedList(a.successors)]

\* logic_version.py:63-137: a digest of the sorted serialised activities, modelled by
\* what is digested: the serialised activities without their order
compute_data_hash(activities) ==
    [digest_of |-> {HashedFields(activities[i]) : i \in 1..Len(activities)},
     count |-> Len(activities)]

\* the data hash a cache call computes itself: None when the project has no activities
CurrentDataHash(activities) ==
    IF activities # <<>> THEN Some(compute_data_hash(activities)) ELSE None

\* cache_service.py:12-68: the returned dict (None when absent or invalid) and the row left
get_forecast_cache(cache, current_activity_count, activities) ==
    IF cache = None THEN [result |-> None, cache |-> cache]
    ELSE IF cache[1].activity_count # current_activity_count
    THEN [result |-> None, cache |-> cache]
    ELSE LET current_data_hash == CurrentDataHash(activities)
         IN  IF current_data_hash # None /\ cache[1].data_hash # None
                    /\ cache[1].data_hash # current_data_hash
             THEN [result |-> None, cache |-> None]
             ELSE [result |-> Some([p50 |-> cache[1].p50, p80 |-> cache[1].p80,
                                    p90 |-> cache[1].p90, p95 |-> cache[1].p95,
                                    criticality_indices |-> cache[1].criticality_indices]),
                   cache |-> cache]

\* cache_service.py:71-130: the row after the upsert
save_forecast_cache(forecast, activity_count, activities) ==
    Some([p50 |-> forecast.p50, p80 |-> forecast.p80, p90 |-> forecast.p90,
          p95 |-> forecast.p95, criticality_indices |-> forecast.criticality_indices,
          activity_count |-> activity_count,
          data_hash |-> CurrentDataHash(activities)])

-----------------------------------------------------------------------------
(* SpecCache: one project whose activities are saved and whose forecast is  *)
(* requested, in any order: db_service.py:341-412, api/forecast.py:27-120   *)

\* requests and saves handled in one behaviour
MaxRequests == 4

\* num_simulations of a request (the endpoint uses 2000)
CacheRuns == 2

ProjectId == "p"

\* activity data the project may hold
StoredProjects ==
    {<<MkActivity("A", <<>>, Some(3 * Day))>>,
     <<MkActivity("A", <<>>, Some(10 * Day))>>,
     <<MkActivity("A", <<>>, Some(10 * Day)), MkActivity("B", <<"A">>, Some(10 * Day))>>,
     <<MkActivity("A", <<>>, Some(10 * Day)), MkActivity("B", <<>>, Some(3 * Day))>>,
     <<MkActivity("A", <<"B">>, Some(3 * Day)), MkActivity("B", <<"A">>, Some(3 * Day))>>}

CacheInit ==
    /\ db_activities \in StoredProjects
    /\ DIGITAL_TWINS = EmptyDict
    /\ forecast_cache = None
    /\ cache_source = None
    /\ response = None
    /\ twin_call = None
    /\ requests = 0
    /\ CPMIdle /\ ModIdle /\ MCIdle /\ RiskIdle /\ DurIdle /\ LoadIdle /\ ClusterIdle /\ SkillIdle /\ FeatIdle /\ TwiceIdle /\ GraphIdle /\ SampleIdle /\ EndpointIdle /\ RisksApiIdle /\ DepthIdle /\ OverloadIdle

\* db_service.py:341-412: invalidate_project_cache, then the rows are replaced
SaveActivities ==
    /\ requests < MaxRequests
    /\ \E activities \in StoredProjects : db_activities' = activities
    /\ forecast_cache' = None
    /\ cache_source' = None
    /\ requests' = requests + 1
    /\ response' = None
    /\ UNCHANGED <<DIGITAL_TWINS, twin_call>>
    /\ UNCHANGED exceptCache

\* api/forecast.py:64-71: the forecast of the twin, with the cycle warning appended
ForecastWithWarnings(twin, mc) ==
    IF mc.raised THEN mc
    ELSE IF twin.has_cycles /\ twin.cycle_warning # None
    THEN Return([k \in DOMAIN mc.value \cup {"warnings"} |->
                    IF k = "warnings" THEN <<twin.cycle_warning[1]>> ELSE mc.value[k]])
    ELSE mc

\* api/forecast.py:27-120: GET forecast, the whole handler
GetForecast ==
    /\ requests < MaxRequests
    /\ requests' = requests + 1
    /\ \E force_recompute \in BOOLEAN, r \in RngStartChoices :
       \E cached \in {IF force_recompute THEN [result |-> None, cache |-> forecast_cache]
                      ELSE get_forecast_cache(forecast_cache, Len(db_activities),
                                              db_activities)} :
            IF cached.result # None
            THEN /\ response' = Some([status |-> "ok", forecast |-> cached.result[1],
                                      from_cache |-> TRUE, computed_from |-> cache_source])
                 /\ UNCHANGED <<DIGITAL_TWINS, forecast_cache, cache_source, twin_call>>
            ELSE \E got \in {get_or_build_twin(DIGITAL_TWINS, ProjectId, db_activities)} :
                 \E mc \in {IF got.raised THEN Raise(got.exc)
                            ELSE ForecastWithWarnings(got.value.twin,
                                    monte_carlo_forecast(got.value.twin, CacheRuns, None, r))} :
                     /\ twin_call' = Some([activities |-> db_activities,
                                           twin |-> got.value.twin, raised |-> got.raised])
                     /\ DIGITAL_TWINS' = got.value.twins
                     /\ IF mc.raised
                        THEN /\ response' = Some([status |-> "error", exc |-> mc.exc])
                             /\ forecast_cache' = cached.cache
                             /\ cache_source' = IF cached.cache = None THEN None
                                                ELSE cache_source
                        ELSE /\ forecast_cache' = save_forecast_cache(
                                    mc.value, Len(db_activities), db_activities)
                             /\ cache_source' = Some(got.value.twin.activities)
                             /\ response' =
                                    Some([status |-> "ok", forecast |-> mc.value,
                                          from_cache |-> FALSE,
                                          computed_from |-> Some(got.value.twin.activities)])
    /\ UNCHANGED db_activities
    /\ UNCHANGED exceptCache

CacheNext == SaveActivities \/ GetForecast

SpecCache == CacheInit /\ [][CacheNext]_vars

-----------------------------------------------------------------------------
(* Longest dependency chains, defined on the graph alone *)

DurationOf(durations, n) == Get(durations, n, 0)

\* length of the longest chain of the graph that ends with n
RECURSIVE LongestTo(_, _, _)
LongestTo(g, n, durations) ==
    DurationOf(durations, n)
        + (IF Predecessors(g, n) = {} THEN 0
           ELSE Max({LongestTo(g, p, durations) : p \in Predecessors(g, n)}))

\* length of the longest chain of the graph that starts with n
RECURSIVE LongestFrom(_, _, _)
LongestFrom(g, n, durations) ==
    DurationOf(durations, n)
        + (IF Successors(g, n) = {} THEN 0
           ELSE Max({LongestFrom(g, s, durations) : s \in Successors(g, n)}))

\* length of the longest chain through n
LongestThrough(g, n, durations) ==
    LongestTo(g, n, durations) + LongestFrom(g, n, durations) - DurationOf(durations, n)

LongestChain(g, durations) == Max({LongestTo(g, a, durations) : a \in DOMAIN durations})

\* float of an activity in the dictionaries of the run: LS - ES
RunFloat(a) == cpm_times.latest_start[a] - cpm_times.earliest_start[a]

\* Scenario C of the spec: A -> B, A takes 5 days, B takes 3
ScenarioC ==
    /\ Len(cpm_activities) = 2
    /\ cpm_activities[1].predecessors = <<>>
    /\ cpm_activities[2].predecessors = <<"A">>
    /\ simulated_durations = ("A" :> 5 * Day) @@ ("B" :> 3 * Day)

C8_FinishIsLongestChain ==
    cpm_pc = "computed" =>
        LET g == cpm_twin[1].graph
            d == simulated_durations
        IN  /\ project_duration = Some(LongestChain(g, d))
            /\ \A a \in DOMAIN d :
                    LongestThrough(g, a, d) = LongestChain(g, d)
                        => a \in critical_activities /\ RunFloat(a) = 0
            /\ ScenarioC => /\ project_duration = Some(8 * Day)
                            /\ critical_activities = {"A", "B"}

\* C8 witness: Scenario C (A -> B, 5 and 3 days) has been computed and finishes at 8 days
C8_Witness ==
    /\ cpm_pc = "computed"
    /\ ScenarioC
    /\ project_duration = Some(8 * Day)

-----------------------------------------------------------------------------
(* Claims about forensic modulation (SpecMod) *)

\* the activities whose parameters have been computed
Modulated == IF uncertainty_params_map = None THEN {} ELSE DOMAIN uncertainty_params_map[1]

\* skill variance multiplier of an activity in the supplied skill analysis
SuppliedSkillVariance(a) ==
    Get(Get(skill_analysis, "variance_increase_map", EmptyDict), a, Pct)

\* variance multiplier of an activity in the supplied topology_metrics
SuppliedTopologyVariance(a) ==
    Get(Get(topology_metrics, a, EmptyDict), "variance_multiplier", Pct)

\* archetype of an activity in the supplied risk_archetypes (cluster 0 when absent)
SuppliedArchetype(a) ==
    Get(risk_archetypes, a, get_risk_archetype_characteristics(0))

\* C9: the parameters compute_forensic_forecast hands to the forecaster have, for
\* each activity, variance_multiplier = skill variance of the activity * the
\* activity's variance_multiplier in the supplied topology_metrics * its
\* archetype's variance_multiplier.
C9_VarianceIsProductOfThree ==
    \A a \in Modulated :
        uncertainty_params_map[1][a].variance_multiplier =
            SuppliedSkillVariance(a) * SuppliedTopologyVariance(a)
                * SuppliedArchetype(a).variance_multiplier

\* C10: modulate_uncertainty returns mode_shift_factor = drift mode shift +
\* archetype mode shift and failure_probability = max(archetype failure
\* probability, cost risk_event_probability), never their sum; drift or cost data
\* that is absent (or not a dict) contributes 0.
C10_ShiftAdditiveFailureMax ==
    mod_call # None =>
        LET c == mod_call[1]
            r == uncertainty_params_map[1][c.activity.activity_id]
            drift == IF "drift_velocity" \in DOMAIN c.features
                        /\ c.features.drift_velocity.isdict
                        /\ "mode_shift_factor" \in DOMAIN c.features.drift_velocity.items
                     THEN c.features.drift_velocity.items.mode_shift_factor ELSE 0
            cost == IF "cost_performance" \in DOMAIN c.features
                        /\ c.features.cost_performance.isdict
                        /\ "risk_event_probability" \in DOMAIN c.features.cost_performance.items
                     THEN c.features.cost_performance.items.risk_event_probability ELSE 0
            afp == c.archetype.failure_probability
        IN  /\ r.mode_shift_factor = drift + c.archetype.mode_shift_factor
            /\ r.failure_probability = (IF afp >= cost THEN afp ELSE cost)
            /\ (afp > 0 /\ cost > 0) => r.failure_probability # afp + cost

\* C10 witness: a call with drift and cost data present whose cost probability
\* exceeds the archetype's, and a call with neither drift nor cost data
C10_Witness ==
    /\ mod_pc = "done"
    /\ mod_call # None
    /\ "cost_performance" \notin DOMAIN mod_call[1].features
    /\ \E a \in Modulated :
            /\ a \in DOMAIN enriched_features
            /\ "cost_performance" \in DOMAIN enriched_features[a]
            /\ enriched_features[a].drift_velocity.isdict
            /\ uncertainty_params_map[1][a].failure_probability
                    > SuppliedArchetype(a).failure_probability
            /\ uncertainty_params_map[1][a].mode_shift_factor
                    > SuppliedArchetype(a).mode_shift_factor

-----------------------------------------------------------------------------
(* Claims about building a twin and forecasting (SpecMC) *)

\* the predecessor references of an activity list, as pairs <<predecessor, activity>>
References(activities) ==
    UNION {{<<p, activities[i].activity_id>> :
                p \in {q \in Range(activities[i].predecessors) : Strip(q) # ""}}
           : i \in 1..Len(activities)}

\* R together with the pairs joined by two consecutive pairs of R
Joined(R) == R \cup {<<pq[1][1], pq[2][2]>> : pq \in {x \in R \X R : x[1][2] = x[2][1]}}

RECURSIVE PathPairs(_, _)
PathPairs(R, k) == IF k = 0 THEN R ELSE PathPairs(Joined(R), k - 1)

\* the references contain a directed cycle (a self reference is one)
CyclicReferences(activities) ==
    \E e \in PathPairs(References(activities), Len(activities)) : e[1] = e[2]

\* C1: for every activity set whose predecessor references contain a directed cycle
\* (a self reference included), building the DigitalTwin and calling
\* monte_carlo_forecast with n >= 1 never raises: the twin has has_cycles = true and
\* a forecast with p50, p80, p90, p95 is returned.
C1_CyclicInputNeverRaises ==
    CyclicReferences(mc_activities) =>
        /\ mc_pc # "raised"
        /\ mc_twin # <<>> => mc_twin[1].has_cycles
        /\ mc_pc = "returned" =>
                {"p50", "p80", "p90", "p95"} \subseteq DOMAIN mc_forecast[1]

\* C4: every forecast returned by monte_carlo_forecast (standard or forensic mode,
\* n >= 1 runs, any graph) has p50 <= p80 <= p90 <= p95.
C4_PercentilesOrdered ==
    mc_forecast # None =>
        LET f == mc_forecast[1]
        IN  f.p50 <= f.p80 /\ f.p80 <= f.p90 /\ f.p90 <= f.p95

\* C4 witness: a forensic forecast of several runs whose samples arrived out of
\* order and whose percentiles are not all equal
C4_Witness ==
    /\ mc_pc = "returned"
    /\ mc_forecast[1].forensic_modulation_applied
    /\ mc_forecast[1].p50 < mc_forecast[1].p95
    /\ Len(project_durations) >= 2
    /\ project_durations[1] > project_durations[2] + Day

\* C6: with a fixed seed, two forecast runs on identical inputs (same twin, same
\* simulation count, same simulation parameters) return identical p50, p80, p90, p95.
C6_SameSeedSamePercentiles ==
    (Len(mc_history) = 2 /\ mc_history[1].start_rng = mc_history[2].start_rng) =>
        /\ mc_history[1].forecast.p50 = mc_history[2].forecast.p50
        /\ mc_history[1].forecast.p80 = mc_history[2].forecast.p80
        /\ mc_history[1].forecast.p90 = mc_history[2].forecast.p90
        /\ mc_history[1].forecast.p95 = mc_history[2].forecast.p95

\* C6 witness: the generator was reseeded to the state the first forecast started
\* from, the second forecast has returned, and its percentiles are not all equal
C6_Witness ==
    /\ Len(mc_history) = 2
    /\ mc_history[1].start_rng = mc_history[2].start_rng
    /\ num_simulations >= 2
    /\ mc_history[2].forecast.p50 < mc_history[2].forecast.p95

-----------------------------------------------------------------------------
(* Claims about the twin cache and the forecast cache (SpecCache) *)

\* the request just handled was answered from the forecast cache
ServedFromCache ==
    /\ response # None
    /\ response[1].status = "ok"
    /\ response[1].from_cache

\* C2: get_forecast_cache returns a stored forecast only when the stored activity
\* count and content hash equal those of the project's current activity data; so
\* after any sequence of saves and activity changes a forecast computed from
\* earlier, different activity data is never served.
C2_NoStaleForecastServed ==
    ServedFromCache =>
        /\ forecast_cache # None
        /\ forecast_cache[1].activity_count = Len(db_activities)
        /\ forecast_cache[1].data_hash = CurrentDataHash(db_activities)
        /\ response[1].computed_from # None
        /\ compute_data_hash(response[1].computed_from[1]) = compute_data_hash(db_activities)

\* C3: the twin returned by get_or_build_twin(p, A) contains exactly the activities
\* and edges of A, also when an earlier call on the same project id supplied
\* different activities.
C3_TwinOfSuppliedActivities ==
    (twin_call # None /\ ~twin_call[1].raised) =>
        /\ twin_call[1].twin.activities = twin_call[1].activities
        /\ twin_call[1].twin.graph.edges = References(twin_call[1].activities)

-----------------------------------------------------------------------------
(* Risk scoring: core/risk_model.py and core/ml_risk_model.py.  Scores are   *)
(* integers in hundredths of a point; a quotient is rounded down to that     *)
(* resolution.                                                               *)

Point == Pct

\* max(lo, min(hi, x))
Clamp(lo, hi, x) == IF x < lo THEN lo ELSE IF x > hi THEN hi ELSE x

\* risk_model.py:10-15, value and range in days
normalize_to_0_100(value, min_val, max_val) ==
    IF max_val = min_val THEN 0
    ELSE Clamp(0, 100 * Point, ((value - min_val) * 100 * Point) \div (max_val - min_val))

\* risk_model.py:38-46, in hundredths
WEIGHTS ==
    [schedule_delay |-> 25, progress_slip |-> 25, risk_register |-> 10,
     float_criticality |-> 20, dependency |-> 10, resource_overload |-> 5,
     anomaly |-> 5]

\* risk_model.py:48-52
compute_schedule_delay_score(f) ==
    normalize_to_0_100(Get(f, "delay_baseline_days", 0), 0, 30)

\* risk_model.py:54-58, progress_slip in hundredths
compute_progress_slip_score(f) == Get(f, "progress_slip", 0) * Point

\* risk_model.py:60-90, float_score in hundredths
compute_float_criticality_score(f) ==
    LET float_score == Get(f, "float_score", 0)
        base_score == float_score * Point
        bonus == IF float_score >= 80 THEN 40 * Point
                 ELSE IF float_score >= 60 THEN 35 * Point
                 ELSE IF float_score >= 40 THEN 30 * Point
                 ELSE 25 * Point
    IN  IF Get(f, "is_on_critical_path", FALSE)
        THEN Min({100 * Point, base_score + bonus})
        ELSE base_score

\* risk_model.py:92-108, risk_probability in hundredths, the delays in days
compute_risk_register_score(f) ==
    LET probability_score == (Get(f, "risk_probability", 0) * 50 * Point) \div Pct
        impact_score == normalize_to_0_100(Get(f, "risk_delay_impact_days", 0), 0, 30) \div 2
        expected_delay_score == Min({20 * Point, Get(f, "expected_delay_days", 0) * 2 * Point})
    IN  Min({100 * Point, probability_score + impact_score + expected_delay_score})

\* risk_model.py:110-135
compute_dependency_score(f) ==
    LET predecessor_count == Get(f, "predecessor_count", 0)
        successor_count == Get(f, "successor_count", 0)
        downstream_depth == Get(f, "downstream_critical_depth", 0)
        from_predecessors == IF predecessor_count >= 5 THEN 30 * Point
                             ELSE IF predecessor_count >= 3 THEN 15 * Point ELSE 0
        from_successors == IF successor_count >= 5 THEN 40 * Point
                           ELSE IF successor_count >= 3 THEN 25 * Point ELSE 0
        from_depth == IF downstream_depth >= 3 THEN 30 * Point
                      ELSE IF downstream_depth >= 1 THEN 15 * Point ELSE 0
    IN  Min({100 * Point, from_predecessors + from_successors + from_depth})

\* risk_model.py:137-161, fte_ratio in hundredths
compute_resource_overload_score(f) ==
    LET fte_ratio == Get(f, "fte_ratio", 0)
        score == IF fte_ratio > 100 THEN Min({100 * Point, (fte_ratio - 100) * Point})
                 ELSE IF fte_ratio > 90 THEN 60 * Point + ((fte_ratio - 90) * 40 * Point) \div 10
                 ELSE IF fte_ratio > 70 THEN 30 * Point + ((fte_ratio - 70) * 30 * Point) \div 20
                 ELSE IF fte_ratio > 0 THEN (fte_ratio * 30 * Point) \div 70
                 ELSE 0
    IN  Min({100 * Point, Max({0, score})})

\* risk_model.py:163-176, the flags in hundredths
compute_anomaly_score(f) ==
    IF Get(f, "zombie_task_flag", 0) > 50 \/ Get(f, "resource_black_hole_flag", 0) > 50
    THEN 100 * Point
    ELSE 0

\* risk_model.py:192-198 and 204-210: the seven raw component scores of one feature dict
ComponentScores(f) ==
    [schedule_delay |-> compute_schedule_delay_score(f),
     progress_slip |-> compute_progress_slip_score(f),
     risk_register |-> compute_risk_register_score(f),
     float_criticality |-> compute_float_criticality_score(f),
     dependency |-> compute_dependency_score(f),
     resource_overload |-> compute_resource_overload_score(f),
     anomaly |-> compute_anomaly_score(f)]

\* risk_model.py:213-220 followed by the  * 100.0  of 222-228: the fraction of the
\* range, counted in ten-thousandths, is that many hundredths of a point
normalize_value(value, all_values) ==
    IF all_values = {} THEN 0
    ELSE LET min_val == Min(all_values)
             max_val == Max(all_values)
         IN  IF max_val = min_val THEN 0
             ELSE ((value - min_val) * 100 * Point) \div (max_val - min_val)

\* risk_model.py:232-240
WeightedSum(score) ==
    (WEIGHTS.schedule_delay * score.schedule_delay
     + WEIGHTS.progress_slip * score.progress_slip
     + WEIGHTS.risk_register * score.risk_register
     + WEIGHTS.float_criticality * score.float_criticality
     + WEIGHTS.dependency * score.dependency
     + WEIGHTS.resource_overload * score.resource_overload
     + WEIGHTS.anomaly * score.anomaly) \div Pct

\* risk_model.py:178-243  RuleBasedRiskModel.predict; project_features is None or a list
predict(f, project_features) ==
    CHOOSE result \in
        {Clamp(0, 100 * Point,
               WeightedSum(
                   IF project_features # None /\ Len(project_features[1]) > 1
                   THEN [c \in DOMAIN WEIGHTS |->
                            normalize_value(raw[c], {all[i][c] : i \in DOMAIN all})]
                   ELSE raw))
         : <<raw, all>> \in
               {<<ComponentScores(f),
                  IF project_features = None THEN <<>>
                  ELSE [i \in DOMAIN project_features[1] |->
                           ComponentScores(project_features[1][i])]>>}}
        : TRUE

\* ml_risk_model.py:169-186  MLRiskModel.predict; prediction is what extracting the
\* features and calling the fitted regressor yields, a value or an exception
MLRiskModel_predict(trained, prediction) ==
    IF ~trained THEN Raise("ValueError")
    ELSE IF prediction.raised THEN prediction
    ELSE Return(Clamp(0, 100 * Point, prediction.value))

\* ml_risk_model.py:263-305  HybridRiskModel.predict
HybridRiskModel_predict(self, features, use_ml, fallback_to_rule, project_features, prediction) ==
    CHOOSE result \in
        {IF ml_score # None /\ use_ml
         THEN IF self.ml_weight = Pct
              THEN Return([risk_score |-> ml_score[1], method |-> "ml"])
              ELSE IF self.ml_weight = 0
              THEN Return([risk_score |-> rule_score, method |-> "rule"])
              ELSE Return([risk_score |-> (self.ml_weight * ml_score[1]
                                           + self.rule_weight * rule_score) \div Pct,
                           method |-> "ensemble"])
         ELSE IF fallback_to_rule
              THEN Return([risk_score |-> rule_score,
                           method |-> IF use_ml THEN "ml_fallback" ELSE "rule"])
              ELSE Raise("ValueError")
         : <<rule_score, ml_score>> \in
               {<<predict(features, project_features),
                  IF use_ml /\ self.ml_available
                  THEN LET ml == MLRiskModel_predict(self.is_trained, prediction)
                       IN  IF ml.raised THEN None ELSE Some(ml.value)
                  ELSE None>>}}
        : TRUE

-----------------------------------------------------------------------------
(* SpecRisk: compute_project_risks has computed the features of every       *)
(* activity and chosen its model; it scores the activities one by one and   *)
(* returns the entries sorted by score                                      *)

\* number of activities of the largest project scored
MaxPopulation == 2

\* feature dictionaries: no features; every component at its maximum; a negative
\* risk probability and slip; a slip above 1 on a critical activity; a middling activity
RiskFeatureChoices ==
    {EmptyDict,
     [delay_baseline_days |-> 45, progress_slip |-> 100, float_score |-> 100,
      is_on_critical_path |-> TRUE, risk_probability |-> 100,
      risk_delay_impact_days |-> 30, expected_delay_days |-> 10,
      predecessor_count |-> 5, successor_count |-> 5, downstream_critical_depth |-> 3,
      fte_ratio |-> 200, zombie_task_flag |-> 100, resource_black_hole_flag |-> 100],
     [risk_probability |-> 0 - 100, progress_slip |-> 0 - 50],
     [delay_baseline_days |-> 45, progress_slip |-> 200, float_score |-> 50,
      is_on_critical_path |-> TRUE, fte_ratio |-> 95],
     [delay_baseline_days |-> 15, progress_slip |-> 30, float_score |-> 80,
      is_on_critical_path |-> FALSE, risk_probability |-> 40,
      risk_delay_impact_days |-> 10, expected_delay_days |-> 4,
      predecessor_count |-> 3, successor_count |-> 3, downstream_critical_depth |-> 1,
      fte_ratio |-> 80, zombie_task_flag |-> 0, resource_black_hole_flag |-> 0]}

\* risk_pipeline.py:81-82, 102-112  all_features, one dictionary per activity of a non-empty project
FeatureLists == UNION {[1..n -> RiskFeatureChoices] : n \in 1..MaxPopulation}

\* config.py:58  ML_ENSEMBLE_WEIGHT = float(os.getenv(...)), default 0.7; the value is
\* not validated, so a weight outside 0.0-1.0 reaches the constructor unchanged
MlWeightChoices == {0, 70, Pct, 150}

\* outcomes of the fitted regressor on one feature vector, before clamping
PredictionChoices ==
    {Return(0 - 20 * Point), Return(55 * Point), Return(130 * Point), Raise("Exception")}

\* risk_pipeline.py:175  risks.sort(key=risk_score, reverse=True): stable, equal
\* scores keep their order
RECURSIVE SortByScore(_)
SortByScore(l) ==
    IF l = <<>> THEN <<>>
    ELSE LET last == l[Len(l)]
             rest == SortByScore(SubSeq(l, 1, Len(l) - 1))
             before == SelectSeq(rest, LAMBDA e : e.risk_score >= last.risk_score)
             after == SelectSeq(rest, LAMBDA e : e.risk_score < last.risk_score)
         IN  before \o <<last>> \o after

\* risk_pipeline.py:160-172  the entry appended for one activity
RiskEntry(features, risk_score, method) ==
    [features |-> features, risk_score |-> risk_score, prediction_method |-> method]

\* risk_pipeline.py:32-50 and 97-98 (the model), ml_risk_model.py:253-261 (its
\* construction; load() sets is_trained when it succeeds), risk_pipeline.py:102-126
RiskInit ==
    /\ risk_pc = "scoring"
    /\ all_features \in FeatureLists
    /\ risks = <<>>
    /\ \/ /\ risk_model = "rule"
          /\ ml_weight = 0
          /\ rule_weight = 0
          /\ ml_available = FALSE
          /\ ML_FALLBACK_TO_RULE_BASED = TRUE
       \/ /\ risk_model = "hybrid"
          /\ ml_weight \in MlWeightChoices
          /\ rule_weight = Pct - ml_weight
          /\ ml_available \in BOOLEAN
          /\ ML_FALLBACK_TO_RULE_BASED \in BOOLEAN
    /\ is_trained = ml_available
    /\ CPMIdle /\ ModIdle /\ MCIdle /\ CacheIdle /\ DurIdle /\ LoadIdle /\ ClusterIdle /\ SkillIdle /\ FeatIdle /\ TwiceIdle /\ GraphIdle /\ SampleIdle /\ EndpointIdle /\ RisksApiIdle /\ DepthIdle /\ OverloadIdle

\* risk_pipeline.py:131-132, 150-172  one iteration of the loop with the rule-based model
ScoreWithRuleModel ==
    /\ risk_pc = "scoring"
    /\ risk_model = "rule"
    /\ Len(risks) < Len(all_features)
    /\ \E features \in {all_features[Len(risks) + 1]} :
         risks' = Append(risks, RiskEntry(features, predict(features, Some(all_features)),
                                          "rule"))
    /\ UNCHANGED <<risk_pc, risk_model, ml_weight, rule_weight, ml_available, is_trained,
                   ML_FALLBACK_TO_RULE_BASED, all_features>>
    /\ UNCHANGED exceptRisk

\* risk_pipeline.py:131-149, 156-172  one iteration of the loop with the hybrid model;
\* the model is the hybrid only when should_use_ml is true.  An exception of
\* model.predict leaves compute_project_risks.
ScoreWithHybridModel ==
    /\ risk_pc = "scoring"
    /\ risk_model = "hybrid"
    /\ Len(risks) < Len(all_features)
    /\ \E features \in {all_features[Len(risks) + 1]},
          prediction \in IF ml_available THEN PredictionChoices ELSE {Raise("Exception")} :
         \E result \in {HybridRiskModel_predict(
                            [ml_weight |-> ml_weight, rule_weight |-> rule_weight,
                             ml_available |-> ml_available, is_trained |-> is_trained],
                            features, TRUE, ML_FALLBACK_TO_RULE_BASED, Some(all_features),
                            prediction)} :
            IF result.raised
            THEN /\ risk_pc' = "raised"
                 /\ UNCHANGED risks
            ELSE /\ risks' = Append(risks, RiskEntry(features, result.value.risk_score,
                                                     result.value.method))
                 /\ UNCHANGED risk_pc
    /\ UNCHANGED <<risk_model, ml_weight, rule_weight, ml_available, is_trained,
                   ML_FALLBACK_TO_RULE_BASED, all_features>>
    /\ UNCHANGED exceptRisk

\* risk_pipeline.py:175-177  the loop is over: sort and return
ReturnRisks ==
    /\ risk_pc = "scoring"
    /\ Len(risks) = Len(all_features)
    /\ risks' = SortByScore(risks)
    /\ risk_pc' = "returned"
    /\ UNCHANGED <<risk_model, ml_weight, rule_weight, ml_available, is_trained,
                   ML_FALLBACK_TO_RULE_BASED, all_features>>
    /\ UNCHANGED exceptRisk

RiskNext == ScoreWithRuleModel \/ ScoreWithHybridModel \/ ReturnRisks

SpecRisk == RiskInit /\ [][RiskNext]_vars

-----------------------------------------------------------------------------
(* Claims about the risk score (SpecRisk) *)

\* C5: for every activity and every project feature population, the risk score
\* returned by RuleBasedRiskModel.predict, and by HybridRiskModel.predict in its ml,
\* rule, ensemble and fallback outcomes, satisfies 0 <= risk_score <= 100.
C5_RiskScoreWithinBounds ==
    \A i \in DOMAIN risks :
        /\ 0 <= risks[i].risk_score
        /\ risks[i].risk_score <= 100 * Point

-----------------------------------------------------------------------------
(* Claims about the simulation runs of a forecast (SpecMC) *)

\* C11: no simulation run mutates shared state: a run leaves the twin's graph, the
\* twin's activities and the supplied simulation-parameter map unchanged, and writes
\* only to its own sampled-duration map and the end-of-run accumulators
\* (project_durations, criticality_counts, the count of runs done); in particular
\* it leaves the process-wide random generator as it found it.
C11_RunsWriteOnlyTheirOwnState ==
    [][(mc_pc = "running" /\ mc_run' = mc_run + 1) =>
          /\ mc_twin' = mc_twin
          /\ mc_activities' = mc_activities
          /\ mc_params' = mc_params
          /\ rng' = rng]_vars

\* the critical sets of the first k runs of a forecast that started from generator
\* state r, each run recomputed on its own
RECURSIVE CriticalSetsOfRuns(_, _, _, _)
CriticalSetsOfRuns(twin, params_map, r, k) ==
    IF k = 0 THEN <<>>
    ELSE CHOOSE result \in
            {<<run.critical>> \o CriticalSetsOfRuns(twin, params_map, run.rng, k - 1)
                : run \in {SimulateOneRun(twin, params_map, r)}} : TRUE

\* C12: for every forecast with n >= 1 runs, criticality_indices has exactly one entry
\* per activity id of the twin, each equal to (number of runs in which that activity
\* was in the critical set) / n and therefore within [0, 1].
C12_CriticalityIndexIsTallyOverRuns ==
    (mc_pc = "returned" /\ mc_forecast # None) =>
        \E sets \in {CriticalSetsOfRuns(mc_twin[1], mc_params, mc_start_rng,
                                        num_simulations)} :
            LET ci == mc_forecast[1].criticality_indices
            IN  /\ DOMAIN ci = ActivityIds(mc_twin[1].activities)
                /\ \A a \in DOMAIN ci :
                      /\ ci[a].of = num_simulations
                      /\ ci[a].count = Cardinality({k \in DOMAIN sets : a \in sets[k]})
                      /\ 0 <= ci[a].count
                      /\ ci[a].count <= ci[a].of

\* C12 witness: a forecast of several runs has returned in which one activity was
\* critical in some runs but not in all of them
C12_Witness ==
    /\ mc_pc = "returned"
    /\ mc_forecast # None
    /\ num_simulations >= 2
    /\ \E a \in DOMAIN mc_forecast[1].criticality_indices :
          /\ 0 < mc_forecast[1].criticality_indices[a].count
          /\ mc_forecast[1].criticality_indices[a].count < num_simulations

\* the activities of the twin whose durations the forecast drew through
\* simulate_activity_duration_forensic (mc_forecaster.py:47-49, 267-268)
ForensicallySampled ==
    {i \in DOMAIN mc_twin[1].activities :
        LET uncertainty_params == ParamsFor(mc_params, mc_twin[1].activities[i].activity_id)
        IN  uncertainty_params # None /\ DOMAIN uncertainty_params[1] # {}}

\* C13: the forensic_modulation_applied flag of a forecast is true if and only if
\* forensic simulation parameters were applied to shape the sampled durations of that
\* forecast; it is false whenever every activity was sampled with the standard
\* fallback distribution.
C13_FlagIffForensicSampling ==
    (mc_pc = "returned" /\ mc_forecast # None) =>
        (mc_forecast[1].forensic_modulation_applied <=> ForensicallySampled # {})

-----------------------------------------------------------------------------
(* SpecDur: monte_carlo_forecast on a project some of whose activities have *)
(* no usable duration: the validation of the durations, then the draws of   *)
(* the first run, without and with forensic parameters                      *)

\* number of activities of the largest such project
MaxDurActs == 6

DurIds == <<"T1", "T2", "T3", "T4", "T5", "T6", "T7", "T8">>

\* values of one duration field: missing, zero, negative, three days
DurationFieldChoices == {None, Some(0), Some(0 - 2 * Day), Some(3 * Day)}

\* the three duration fields of an activity of a longer project: all missing; negative,
\* zero and missing; three days planned
DurationProfiles ==
    {[remaining |-> None, planned |-> None, baseline |-> None],
     [remaining |-> Some(0 - 2 * Day), planned |-> Some(0), baseline |-> None],
     [remaining |-> None, planned |-> Some(3 * Day), baseline |-> None]}

\* activity lists without dependencies: one activity with every combination of the
\* three duration fields, and longer lists with the profiles above
DurProjects ==
    {<<[MkActivity(DurIds[1], <<>>, d[2]) EXCEPT !.remaining_duration = d[1],
                                                !.baseline_duration = d[3]]>>
        : d \in [1..3 -> DurationFieldChoices]}
    \cup UNION {{[i \in 1..n |->
                    [MkActivity(DurIds[i], <<>>, prof[i].planned)
                        EXCEPT !.remaining_duration = prof[i].remaining,
                               !.baseline_duration = prof[i].baseline]]
                  : prof \in [1..n -> DurationProfiles]}
                : n \in 2..MaxDurActs}

\* the caller is monte_carlo_forecast(twin, n) or compute_forensic_forecast, which has
\* built a parameter map entry for every activity (forensic_forecast.py:48-65)
DurInit ==
    /\ dur_pc = "new"
    /\ dur_activities \in DurProjects
    /\ dur_params \in {None, Some(ForensicParams(dur_activities, ActivityIds(dur_activities)))}
    /\ dur_rng \in RngStartChoices
    /\ dur_warnings = <<>>
    /\ dur_drawn = None
    /\ CPMIdle /\ ModIdle /\ MCIdle /\ CacheIdle /\ RiskIdle /\ LoadIdle /\ ClusterIdle /\ SkillIdle /\ FeatIdle /\ TwiceIdle /\ GraphIdle /\ SampleIdle /\ EndpointIdle /\ RisksApiIdle /\ DepthIdle /\ OverloadIdle

\* mc_forecaster.py:244-260: the validation of the durations and its warning
DurStartForecast ==
    /\ dur_pc = "new"
    /\ dur_pc' = "started"
    /\ dur_warnings' = MissingDurationWarnings(dur_activities)
    /\ UNCHANGED <<dur_activities, dur_params, dur_rng, dur_drawn>>
    /\ UNCHANGED exceptDur

\* mc_forecaster.py:262-269: the durations of the first run
DurDrawRun ==
    /\ dur_pc = "started"
    /\ dur_pc' = "drawn"
    /\ \E drawn \in {DrawDurations(dur_activities, dur_params, 1, dur_rng, EmptyDict)} :
          dur_drawn' = Some(drawn)
    /\ UNCHANGED <<dur_activities, dur_params, dur_rng, dur_warnings>>
    /\ UNCHANGED exceptDur

DurNext == DurStartForecast \/ DurDrawRun

SpecDur == DurInit /\ [][DurNext]_vars

-----------------------------------------------------------------------------
(* Claims about missing durations (SpecDur) *)

\* the remaining, planned and baseline durations are all missing, zero or negative
NoUsableDuration(a) ==
    \A d \in {a.remaining_duration, a.planned_duration, a.baseline_duration} :
        d = None \/ d[1] <= 0

\* the same activities, those without a usable duration planned at one day
WithDefaultDuration(activities) ==
    [i \in DOMAIN activities |->
        IF NoUsableDuration(activities[i])
        THEN [activities[i] EXCEPT !.remaining_duration = None,
                                   !.planned_duration = Some(Day),
                                   !.baseline_duration = None]
        ELSE activities[i]]

\* C14: an activity whose remaining, planned and baseline durations are all missing,
\* zero or negative is simulated with base duration 1.0 in both the standard and the
\* forensic path, and the forecaster emits one warning that lists at most 5 of the
\* affected activity ids however many are affected.
C14_DefaultDurationAndCappedWarning ==
    LET affected == {dur_activities[i].activity_id :
                        i \in {j \in DOMAIN dur_activities :
                                  NoUsableDuration(dur_activities[j])}}
        defaulted == WithDefaultDuration(dur_activities)
    IN  /\ (dur_pc \in {"started", "drawn"} /\ affected # {}) =>
              /\ Len(dur_warnings) = 1
              /\ Len(dur_warnings[1].ids) >= 1
              /\ Len(dur_warnings[1].ids) <= 5
              /\ Cardinality(affected) <= 5 => affected \subseteq Range(dur_warnings[1].ids)
        /\ dur_pc = "drawn" =>
              /\ ~dur_drawn[1].raised
              /\ dur_params # None =>
                    \A aid \in affected : dur_params[1][aid].base_duration = Day
              /\ dur_drawn[1].value =
                    DrawDurations(
                        defaulted,
                        IF dur_params = None THEN None
                        ELSE Some(ForensicParams(defaulted, ActivityIds(defaulted))),
                        1, dur_rng, EmptyDict).value

\* C14 witness: the first run of a forensic forecast has been drawn for a project of
\* more than five activities, all without a usable duration, and five were listed
C14_Witness ==
    /\ dur_pc = "drawn"
    /\ dur_params # None
    /\ Len(dur_activities) > 5
    /\ \A i \in DOMAIN dur_activities : NoUsableDuration(dur_activities[i])
    /\ \E i \in DOMAIN dur_activities : dur_activities[i].remaining_duration # None
    /\ Len(dur_warnings[1].ids) = 5

-----------------------------------------------------------------------------
(* Claims about dangling predecessor references (SpecCPM) *)

\* a non-blank predecessor reference that resolves to no activity of the list
IsDangling(activities, p) == Strip(p) # "" /\ p \notin ActivityIds(activities)

HasDangling(activities) ==
    \E i \in DOMAIN activities :
        \E p \in Range(activities[i].predecessors) : IsDangling(activities, p)

\* the same activities with the dangling references removed
WithoutDangling(activities) ==
    [i \in DOMAIN activities |->
        [activities[i] EXCEPT !.predecessors =
            SelectSeq(@, LAMBDA p : ~IsDangling(activities, p))]]

\* C15: a predecessor reference that resolves to no activity is treated as absent:
\* building the twin and forecasting never raise, and for any duration assignment the
\* project finish and the critical set equal those obtained from the same activities
\* with the dangling reference removed.
C15_DanglingReferenceIsAbsent ==
    HasDangling(cpm_activities) =>
        /\ cpm_pc # "raised"
        /\ cpm_pc = "computed" =>
              \E twin \in {DigitalTwin(WithoutDangling(cpm_activities))} :
                  /\ ~twin.raised
                  /\ \E len \in {compute_critical_path_length(twin.value.graph,
                                                              simulated_durations)} :
                        ~len.raised /\ project_duration = Some(len.value)
                  /\ \E act \in {compute_critical_path_activities(twin.value.graph,
                                                                  simulated_durations)} :
                        ~act.raised /\ critical_activities = act.value.critical

-----------------------------------------------------------------------------
(* Loading a batch of input records: core/csv_connector.py and             *)
(* core/connectors/validators.py.  A record carries an identifier and a     *)
(* name; a cell is None (NaN, absent) or a string.                          *)

\* csv_connector.py:18-37  _clean_string_value on a None or string cell
clean_string_value(value) ==
    IF value = None THEN None
    ELSE IF Strip(value[1]) = "" THEN None
    ELSE Some(Strip(value[1]))

\* csv_connector.py:59-74  _get_required_string_column_value, the column being present
get_required_string_column_value(cell) ==
    LET value == clean_string_value(cell)
    IN  IF value = None \/ value[1] = "" THEN Raise("ValueError") ELSE Return(value[1])

\* csv_connector.py:127-306  load_activities_from_csv: the loop over the rows from row i
\* on, activities being the list built so far
RECURSIVE load_activities_from_csv(_, _, _)
load_activities_from_csv(rows, i, activities) ==
    IF i > Len(rows) THEN Return(activities)
    ELSE LET activity_id == get_required_string_column_value(rows[i].activity_id)
             name == get_required_string_column_value(rows[i].name)
         IN  IF activity_id.raised THEN Raise(activity_id.exc)
             ELSE IF name.raised THEN Raise(name.exc)
             ELSE load_activities_from_csv(rows, i + 1,
                      Append(activities, [activity_id |-> Some(activity_id.value),
                                          name |-> Some(name.value)]))

\* validators.py:30-147  ActivityValidator.validate, the other fields being valid: the
\* identifier and the name must be non-empty after strip(), and a non-empty identifier
\* must match [A-Za-z0-9_-]+
validate(activity) ==
    LET errors ==
            (IF activity.activity_id = None \/ Strip(activity.activity_id[1]) = ""
             THEN {"activity_id is required and cannot be empty"} ELSE {})
            \cup (IF activity.name = None \/ Strip(activity.name[1]) = ""
                  THEN {"name is required and cannot be empty"} ELSE {})
            \cup (IF activity.activity_id # None /\ activity.activity_id[1] = " "
                  THEN {"activity_id contains invalid characters"} ELSE {})
    IN  IF errors # {} THEN Raise("ValidationError") ELSE Return(TRUE)

\* validators.py:24
DefaultMaxActivities == 10000

\* validators.py:185-196  the loop of validate_batch from activity i on
RECURSIVE ValidateFrom(_, _, _, _)
ValidateFrom(activities, i, valid_activities, errors) ==
    IF i > Len(activities) THEN [valid_activities |-> valid_activities, errors |-> errors]
    ELSE IF validate(activities[i]).raised
    THEN ValidateFrom(activities, i + 1, valid_activities,
                      Append(errors, [activity |-> i, message |-> "Validation failed"]))
    ELSE ValidateFrom(activities, i + 1, Append(valid_activities, activities[i]), errors)

\* validators.py:170-198  ActivityValidator.validate_batch
validate_batch(activities, max_activities) ==
    IF Len(activities) > max_activities
    THEN [valid_activities |-> <<>>,
          errors |-> <<[activity |-> 0, message |-> "Too many activities"]>>]
    ELSE ValidateFrom(activities, 1, <<>>, <<>>)

-----------------------------------------------------------------------------
(* SpecLoad: one batch of records is loaded from a CSV file, or validated   *)
(* as a batch of activities                                                 *)

\* number of records of the largest batch
MaxRows == 3

\* cells of the identifier column: an identifier, a blank, nothing
IdCells == {Some("T1"), Some(" "), None}

\* cells of the name column: a name, an empty string, nothing
NameCells == {Some("Task"), Some(""), None}

Batches ==
    UNION {[1..n -> [activity_id : IdCells, name : NameCells]] : n \in 1..MaxRows}

LoadInit ==
    /\ load_pc = "new"
    /\ load_rows \in Batches
    /\ load_result = None
    /\ CPMIdle /\ ModIdle /\ MCIdle /\ CacheIdle /\ RiskIdle /\ DurIdle /\ ClusterIdle /\ SkillIdle /\ FeatIdle /\ TwiceIdle /\ GraphIdle /\ SampleIdle /\ EndpointIdle /\ RisksApiIdle /\ DepthIdle /\ OverloadIdle

\* projects.py:89  activities = load_activities_from_csv(project_id, temp_path)
LoadCsv ==
    /\ load_pc = "new"
    /\ \E r \in {load_activities_from_csv(load_rows, 1, <<>>)} :
          /\ load_result' = Some([call |-> "load_activities_from_csv",
                                  raised |-> r.raised, exc |-> r.exc,
                                  activities |-> IF r.raised THEN <<>> ELSE r.value,
                                  warnings |-> <<>>])
          /\ load_pc' = IF r.raised THEN "raised" ELSE "loaded"
    /\ UNCHANGED load_rows
    /\ UNCHANGED exceptLoad

\* ActivityValidator().validate_batch(activities) on the records as Activity objects
LoadValidateBatch ==
    /\ load_pc = "new"
    /\ \E r \in {validate_batch(load_rows, DefaultMaxActivities)} :
          load_result' = Some([call |-> "validate_batch", raised |-> FALSE, exc |-> "",
                               activities |-> r.valid_activities,
                               warnings |-> r.errors])
    /\ load_pc' = "loaded"
    /\ UNCHANGED load_rows
    /\ UNCHANGED exceptLoad

LoadNext == LoadCsv \/ LoadValidateBatch

SpecLoad == LoadInit /\ [][LoadNext]_vars

-----------------------------------------------------------------------------
(* Claims about malformed records (SpecLoad) *)

\* the record has an identifier and a name, neither empty nor blank
WellFormed(row) ==
    /\ row.activity_id # None /\ Strip(row.activity_id[1]) # ""
    /\ row.name # None /\ Strip(row.name[1]) # ""

\* C16: when a batch of input records contains an activity with a missing or empty
\* identifier or name, only that activity is rejected and a warning is collected for
\* it; every other activity of the batch is still loaded and the batch is not aborted.
C16_OnlyMalformedRecordsRejected ==
    load_pc \in {"loaded", "raised"} =>
        /\ ~load_result[1].raised
        /\ load_result[1].activities = SelectSeq(load_rows, WellFormed)
        /\ Len(load_result[1].warnings) =
              Cardinality({i \in DOMAIN load_rows : ~WellFormed(load_rows[i])})

-----------------------------------------------------------------------------
(* Claims about the fallback to rule-based scoring (SpecRisk) *)

\* C17: if the optional ML predictor is unavailable or its predict call fails, risk
\* scoring does not raise: the rule-based score is returned for the activity and the
\* fallback is recorded in the output's prediction_method.
C17_FallbackToRuleScore ==
    /\ risk_pc # "raised"
    /\ \A i \in DOMAIN risks :
          (risk_model = "hybrid" /\ ~ml_available) \/ risks[i].prediction_method = "ml_fallback"
            => /\ risks[i].prediction_method = "ml_fallback"
               /\ risks[i].risk_score = predict(risks[i].features, Some(all_features))

-----------------------------------------------------------------------------
(* Risk clustering: core/risk_clustering.py.                               *)
(* A number of a feature dict is Finite(v), PosInf or NaN, v in hundredths *)
(* (counts in units); None is a value that is no number.                   *)

Finite(v) == <<"finite", v>>

PosInf == <<"inf">>

NaN == <<"nan">>

\* a + b of Python: TypeError unless both are numbers
Add(a, b) ==
    IF a = None \/ b = None THEN Raise("TypeError")
    ELSE IF a = NaN \/ b = NaN THEN Return(NaN)
    ELSE IF a = PosInf \/ b = PosInf THEN Return(PosInf)
    ELSE Return(Finite(a[2] + b[2]))

\* risk_clustering.py:12-45; the isinstance tests hold, the two nested
\* values being dicts
build_clustering_vector(enriched) ==
    LET float_days == Get(enriched, "float_days", Finite(0))
        fte_ratio == Get(enriched, "fte_ratio", Finite(0))
        drift_velocity == Get(enriched, "drift_velocity", EmptyDict)
        drift_ratio == Get(drift_velocity, "drift_ratio", Finite(0))
        cost_performance == Get(enriched, "cost_performance", EmptyDict)
        cost_variance == Get(cost_performance, "cost_variance", Finite(0))
        predecessor_count == Get(enriched, "predecessor_count", Finite(0))
        successor_count == Get(enriched, "successor_count", Finite(0))
        dependency_count == Add(predecessor_count, successor_count)
    IN  IF dependency_count.raised THEN dependency_count
        ELSE Return(<<float_days, fte_ratio, drift_ratio, cost_variance, dependency_count.value>>)

\* risk_clustering.py:70-78: the loop that builds the vectors; a dict whose
\* vector cannot be built is reported and left out
RECURSIVE BuildVectorsFrom(_, _, _, _)
BuildVectorsFrom(feature_dicts, i, feature_vectors, activity_ids) ==
    IF i > Len(feature_dicts) THEN [feature_vectors |-> feature_vectors, activity_ids |-> activity_ids]
    ELSE LET vector == build_clustering_vector(feature_dicts[i])
         IN  IF vector.raised
             THEN BuildVectorsFrom(feature_dicts, i + 1, feature_vectors, activity_ids)
             ELSE BuildVectorsFrom(feature_dicts, i + 1, Append(feature_vectors, vector.value), Append(activity_ids, feature_dicts[i].activity_id))

\* the value v occurs in one of the vectors
Contains(X, v) == \E i \in 1..Len(X) : \E j \in 1..Len(X[i]) : X[i][j] = v

\* risk_clustering.py:86-91: StandardScaler.fit_transform validates its input,
\* letting NaN through and raising ValueError on an infinite value.  The scaled
\* values are read by KMeans only, so they are kept as they are.
fit_transform(feature_vectors) ==
    IF Contains(feature_vectors, PosInf) THEN Raise("ValueError") ELSE Return(feature_vectors)

\* risk_clustering.py:94-99: KMeans.fit_predict raises ValueError on NaN and
\* on fewer samples than clusters; otherwise it does what the library did
\* (outcome): a label per vector, or an exception
fit_predict(feature_vectors_scaled, k, outcome) ==
    IF Contains(feature_vectors_scaled, NaN) \/ Len(feature_vectors_scaled) < k THEN Raise("ValueError")
    ELSE outcome

\* risk_clustering.py:64, 91, 99: {aid: 0 for aid in activity_ids}
ZeroArchetypes_One(activity_ids) == [aid \in Range(activity_ids) |-> 1]

ZeroArchetypes(activity_ids) == [aid \in Range(activity_ids) |-> 0]

\* risk_clustering.py:102-104: the last label written for an id stays
LabelsByActivity(activity_ids, cluster_labels) ==
    [aid \in Range(activity_ids) |-> cluster_labels[Max({i \in 1..Len(activity_ids) : activity_ids[i] = aid})]]

\* what KMeans.fit_predict did in the call, None when the call did not reach it
KMeansCall(feature_dicts, k, outcome) ==
    LET built == BuildVectorsFrom(feature_dicts, 1, <<>>, <<>>)
        scaled == fit_transform(built.feature_vectors)
    IN  IF Len(feature_dicts) < k \/ built.feature_vectors = <<>> \/ scaled.raised THEN None
        ELSE Some(fit_predict(scaled.value, k, outcome))

\* risk_clustering.py:48-106
cluster_activities(feature_dicts, k, outcome) ==
    IF Len(feature_dicts) < k
    THEN Return(ZeroArchetypes([i \in 1..Len(feature_dicts) |-> feature_dicts[i].activity_id]))
    ELSE LET built == BuildVectorsFrom(feature_dicts, 1, <<>>, <<>>)
             scaled == fit_transform(built.feature_vectors)
             kmeans == fit_predict(scaled.value, k, outcome)
         IN  IF built.feature_vectors = <<>> THEN Return(EmptyDict)
             ELSE IF scaled.raised THEN Return(ZeroArchetypes(built.activity_ids))
             ELSE IF kmeans.raised THEN Return(ZeroArchetypes(built.activity_ids))
             ELSE Return(LabelsByActivity(built.activity_ids, kmeans.value))

(* SpecCluster: one call of cluster_activities on the feature dicts that    *)
(* compute_features builds (core/features.py:295-323): every dict carries   *)
(* its activity id and two counts; float_days and fte_ratio are floats      *)
(* that may be infinite or NaN.                                             *)

MaxClusterActs == 4

n_clusters == 4

ClusterActIds == <<"A1", "A2", "A3", "A4", "A5", "A6">>

FeatureProfiles(aid) ==
    LET base == [activity_id |-> aid, float_days |-> Finite(0), fte_ratio |-> Finite(50), drift_velocity |-> EmptyDict, cost_performance |-> EmptyDict, predecessor_count |-> Finite(0), successor_count |-> Finite(1)]
    IN  { base,
          [base EXCEPT !.float_days = Finite(200), !.drift_velocity = [drift_ratio |-> Finite(30)], !.cost_performance = [cost_variance |-> Finite(50000)]],
          [base EXCEPT !.float_days = PosInf],
          [base EXCEPT !.fte_ratio = NaN] }

ClusterInputs ==
    UNION { { f \in [1..n -> UNION {FeatureProfiles(ClusterActIds[i]) : i \in 1..n}] : \A i \in 1..n : f[i] \in FeatureProfiles(ClusterActIds[i]) } : n \in 0..MaxClusterActs }

KMeansOutcomes(n) == {Raise("Exception")} \cup {Return(labels) : labels \in [1..n -> 0..(n_clusters - 1)]}

\* the library decides an outcome only in a call that reaches KMeans
LibraryOutcomes(feature_dicts, k) ==
    IF KMeansCall(feature_dicts, k, Raise("Exception")) = None THEN {Raise("Exception")}
    ELSE KMeansOutcomes(Len(feature_dicts))

ClusterInit ==
    /\ cl_pc = "new"
    /\ cl_features \in ClusterInputs
    /\ cl_kmeans = None
    /\ cl_result = None
    /\ CPMIdle /\ ModIdle /\ MCIdle /\ CacheIdle /\ RiskIdle /\ DurIdle /\ LoadIdle /\ SkillIdle /\ FeatIdle /\ TwiceIdle /\ GraphIdle /\ SampleIdle /\ EndpointIdle /\ RisksApiIdle /\ DepthIdle /\ OverloadIdle

\* risk_pipeline.py:116: cluster_activities(all_features, n_clusters=4)
ClusterActivities ==
    /\ cl_pc = "new"
    /\ \E outcome \in LibraryOutcomes(cl_features, n_clusters) :
         /\ cl_kmeans' = KMeansCall(cl_features, n_clusters, outcome)
         /\ cl_result' = Some(cluster_activities(cl_features, n_clusters, outcome))
    /\ cl_pc' = "done"
    /\ UNCHANGED cl_features
    /\ UNCHANGED exceptCluster

ClusterNext == ClusterActivities

SpecCluster == ClusterInit /\ [][ClusterNext]_vars

\* the scaling of the call failed
ScalingFailed == Len(cl_features) >= n_clusters /\ fit_transform(BuildVectorsFrom(cl_features, 1, <<>>, <<>>).feature_vectors).raised

\* k-means was reached and failed
KMeansFailed == cl_kmeans # None /\ cl_kmeans[1].raised

\* C18: cluster_activities never propagates an exception to its caller; when
\* there are fewer activities than k, or when scaling or k-means fails, every
\* activity is assigned archetype 0.
C18_ClusteringNeverRaises ==
    cl_pc = "done" =>
        /\ ~cl_result[1].raised
        /\ (Len(cl_features) < n_clusters \/ ScalingFailed \/ KMeansFailed)
             => /\ DOMAIN cl_result[1].value = {cl_features[i].activity_id : i \in 1..Len(cl_features)}
                /\ \A i \in 1..Len(cl_features) : cl_result[1].value[cl_features[i].activity_id] = 0

\* a call with enough activities whose k-means fails, while the library was
\* ready to label some activity other than 0
C18_Witness ==
    /\ cl_pc = "done"
    /\ Len(cl_features) >= n_clusters
    /\ KMeansFailed
    /\ \A i \in 1..Len(cl_features) : cl_result[1].value[cl_features[i].activity_id] = 0

-----------------------------------------------------------------------------
(* Skill-constraint analysis: core/skill_analyzer.py.                      *)
(* FTE values are in hundredths; overload_pct is in tenths of a percent,   *)
(* the precision round(overload_pct, 1) keeps.  A skill-tags string is     *)
(* [sep, parts]: the pieces between the occurrences of one separator; an   *)
(* absent or empty string has no piece.  A missing resource id is "".      *)
(* A planned date is given as _parse_date (163-170) returns it: None or a  *)
(* day number.                                                             *)

\* s.strip().lower() on the pieces used here
StripLower(s) == IF s = "X " THEN "x" ELSE s

\* skill_analyzer.py:12-28; no piece is blank
parse_skill_tags(skill_tags_str) ==
    IF skill_tags_str.parts = <<>> THEN <<>>
    ELSE IF Len(skill_tags_str.parts) > 1
         THEN [i \in 1..Len(skill_tags_str.parts) |-> StripLower(skill_tags_str.parts[i])]
         ELSE <<StripLower(skill_tags_str.parts[1])>>

\* round(a / b, digits) for positive a and b, in units of the last digit kept
RoundDiv(a, b) == (2 * a + b) \div (2 * b)

\* skill_analyzer.py:86-110: the loop over the skills of one activity.
\* skill_demand is the dict in insertion order, one entry per key.
RECURSIVE AddSkillDemand(_, _, _, _)
AddSkillDemand(skill_demand, activity, skills, j) ==
    IF j > Len(skills) THEN skill_demand
    ELSE LET key == <<skills[j], activity.resource_id>>
             planned_start == activity.planned_start[1]
             planned_finish == activity.planned_finish[1]
             fte == IF activity.fte_allocation = None \/ activity.fte_allocation = Some(0) THEN 0 ELSE activity.fte_allocation[1]
             max_fte == IF activity.resource_max_fte = None \/ activity.resource_max_fte = Some(0) THEN Pct ELSE activity.resource_max_fte[1]
             with_key == IF \E i \in 1..Len(skill_demand) : skill_demand[i].key = key THEN skill_demand
                         ELSE Append(skill_demand, [key |-> key, total_fte |-> 0, max_fte |-> max_fte, activities |-> <<>>, time_window_start |-> planned_start, time_window_end |-> planned_finish])
             p == CHOOSE i \in 1..Len(with_key) : with_key[i].key = key
             updated == [with_key[p] EXCEPT !.total_fte = @ + fte,
                                            !.activities = Append(@, activity.activity_id),
                                            !.time_window_start = IF planned_start < @ THEN planned_start ELSE @,
                                            !.time_window_end = IF planned_finish > @ THEN planned_finish ELSE @]
         IN  AddSkillDemand([with_key EXCEPT ![p] = updated], activity, skills, j + 1)

\* skill_analyzer.py:68-110: the loop over the activities
RECURSIVE BuildSkillDemand(_, _, _)
BuildSkillDemand(activities, i, skill_demand) ==
    IF i > Len(activities) THEN skill_demand
    ELSE LET activity == activities[i]
             skills == parse_skill_tags(activity.skill_tags)
         IN  IF activity.skill_tags.parts = <<>> \/ activity.resource_id = "" THEN BuildSkillDemand(activities, i + 1, skill_demand)
             ELSE IF skills = <<>> THEN BuildSkillDemand(activities, i + 1, skill_demand)
             ELSE IF activity.planned_start = None \/ activity.planned_finish = None THEN BuildSkillDemand(activities, i + 1, skill_demand)
             ELSE BuildSkillDemand(activities, i + 1, AddSkillDemand(skill_demand, activity, skills, 1))

\* a dict with d[k] = v
DictSet(d, k, v) == [x \in DOMAIN d \cup {k} |-> IF x = k THEN v ELSE d[x]]

\* skill_analyzer.py:147-148
variance_multiplier_Uncapped(num_skills) == Pct + num_skills * 20

variance_multiplier(num_skills) == Min({2 * Pct, Pct + num_skills * 20})

\* skill_analyzer.py:137-149: the loop over the activities of one bottleneck
RECURSIVE MarkSkillRisk(_, _, _, _)
MarkSkillRisk(skill, activity_ids, j, acc) ==
    IF j > Len(activity_ids) THEN acc
    ELSE LET act_id == activity_ids[j]
             listed == Get(acc.activity_skill_risks, act_id, <<>>)
             skills_at_risk == IF skill \in Range(listed) THEN listed ELSE Append(listed, skill)
         IN  MarkSkillRisk(skill, activity_ids, j + 1,
                 [acc EXCEPT !.activity_skill_risks = DictSet(@, act_id, skills_at_risk),
                             !.variance_increase_map = DictSet(@, act_id, variance_multiplier(Len(skills_at_risk)))])

\* skill_analyzer.py:117-149: the loop over skill_demand.items()
RECURSIVE IdentifyBottlenecks(_, _, _)
IdentifyBottlenecks(skill_demand, i, acc) ==
    IF i > Len(skill_demand) THEN acc
    ELSE LET data == skill_demand[i]
             bottleneck == [skill |-> data.key[1], resource_id |-> data.key[2],
                            total_fte_demand |-> data.total_fte, max_fte |-> data.max_fte,
                            overload_pct |-> RoundDiv(data.total_fte * Pct * 10, data.max_fte),
                            activities |-> data.activities,
                            time_window |-> <<data.time_window_start, data.time_window_end>>]
         IN  IF data.total_fte > data.max_fte
             THEN IdentifyBottlenecks(skill_demand, i + 1, MarkSkillRisk(data.key[1], data.activities, 1, [acc EXCEPT !.skill_bottlenecks = Append(@, bottleneck)]))
             ELSE IdentifyBottlenecks(skill_demand, i + 1, acc)

\* skill_analyzer.py:31-155
check_skill_overload(activities) ==
    IdentifyBottlenecks(BuildSkillDemand(activities, 1, <<>>), 1,
        [skill_bottlenecks |-> <<>>, activity_skill_risks |-> EmptyDict, variance_increase_map |-> EmptyDict])

(* SpecSkill: one call of check_skill_overload on up to MaxSkillActs        *)
(* activities, in every order.                                             *)

MaxSkillActs == 3

SkillActIds == <<"A-001", "A-002", "A-003", "A-004", "A-005">>

Tags(sep, parts) == [sep |-> sep, parts |-> parts]

SkillProfiles(aid) ==
    LET base == [activity_id |-> aid, resource_id |-> "R001", skill_tags |-> Tags(";", <<"x">>), fte_allocation |-> Some(60), resource_max_fte |-> Some(Pct), planned_start |-> Some(1), planned_finish |-> Some(5)]
    IN  { base,
          [base EXCEPT !.fte_allocation = Some(70), !.planned_start = Some(3), !.planned_finish = Some(8)],
          [base EXCEPT !.skill_tags = Tags(";", <<"X ", "y">>), !.fte_allocation = Some(70)],
          [base EXCEPT !.skill_tags = Tags(";", <<"x", "X ">>)],
          [base EXCEPT !.skill_tags = Tags(",", <<"a", "b", "c", "d", "e", "f">>), !.fte_allocation = Some(120)],
          [base EXCEPT !.fte_allocation = Some(70), !.planned_start = None],
          [base EXCEPT !.fte_allocation = Some(70), !.resource_id = ""],
          [base EXCEPT !.fte_allocation = None, !.skill_tags = Tags(";", <<>>)],
          [base EXCEPT !.resource_id = "R002", !.skill_tags = Tags(";", <<"y">>), !.fte_allocation = Some(120), !.resource_max_fte = None],
          [base EXCEPT !.resource_id = "R003", !.fte_allocation = Some(70), !.resource_max_fte = Some(60)] }

SkillInputs ==
    UNION { { a \in [1..n -> UNION {SkillProfiles(SkillActIds[i]) : i \in 1..n}] : \A i \in 1..n : a[i] \in SkillProfiles(SkillActIds[i]) } : n \in 0..MaxSkillActs }

SkillInit ==
    /\ sk_pc = "new"
    /\ sk_activities \in SkillInputs
    /\ sk_result = None
    /\ CPMIdle /\ ModIdle /\ MCIdle /\ CacheIdle /\ RiskIdle /\ DurIdle /\ LoadIdle /\ ClusterIdle /\ FeatIdle /\ TwiceIdle /\ GraphIdle /\ SampleIdle /\ EndpointIdle /\ RisksApiIdle /\ DepthIdle /\ OverloadIdle

\* risk_pipeline.py: skill_analysis = check_skill_overload(activities, reference_date)
CheckSkillOverload ==
    /\ sk_pc = "new"
    /\ sk_result' = Some(check_skill_overload(sk_activities))
    /\ sk_pc' = "done"
    /\ UNCHANGED sk_activities
    /\ UNCHANGED exceptSkill

SkillNext == CheckSkillOverload

SpecSkill == SkillInit /\ [][SkillNext]_vars

\* the FTE an activity asks for and the max-FTE of its resource
FteOf(activity) == IF activity.fte_allocation = None THEN 0 ELSE activity.fte_allocation[1]

MaxFteOf(activity) == IF activity.resource_max_fte = None \/ activity.resource_max_fte = Some(0) THEN Pct ELSE activity.resource_max_fte[1]

\* the activities that carry the skill on the resource, by position
Carriers(skill, rid) ==
    {i \in 1..Len(sk_activities) : sk_activities[i].resource_id = rid /\ skill \in Range(parse_skill_tags(sk_activities[i].skill_tags))}

RECURSIVE SumFte(_)
SumFte(S) == IF S = {} THEN 0 ELSE LET i == CHOOSE x \in S : TRUE IN FteOf(sk_activities[i]) + SumFte(S \ {i})

AllSkills == UNION {Range(parse_skill_tags(sk_activities[i].skill_tags)) : i \in 1..Len(sk_activities)}

AllResources == {sk_activities[i].resource_id : i \in 1..Len(sk_activities)} \ {""}

\* the bottlenecks reported for the pair
Reported(skill, rid) ==
    {j \in 1..Len(sk_result[1].skill_bottlenecks) : sk_result[1].skill_bottlenecks[j].skill = skill /\ sk_result[1].skill_bottlenecks[j].resource_id = rid}

\* C19: check_skill_overload reports a (skill, resource) pair as a bottleneck
\* if and only if the summed FTE demand of the activities carrying that skill
\* on that resource exceeds the resource's max-FTE, with
\* overload_pct = demand / max * 100.
C19_BottleneckIffDemandExceedsMax ==
    sk_pc = "done" =>
        \A skill \in AllSkills : \A rid \in AllResources :
            LET S == Carriers(skill, rid)
                demand == SumFte(S)
                max == MaxFteOf(sk_activities[Min(S)])
            IN  /\ Reported(skill, rid) # {} <=> (S # {} /\ demand > max)
                /\ \A j \in Reported(skill, rid) : sk_result[1].skill_bottlenecks[j].overload_pct * max = demand * Pct * 10

\* the distinct overloaded skills that touch an activity
TouchingSkills(aid) ==
    {sk_result[1].skill_bottlenecks[j].skill : j \in {k \in 1..Len(sk_result[1].skill_bottlenecks) : aid \in Range(sk_result[1].skill_bottlenecks[k].activities)}}

Reverse(s) == [i \in 1..Len(s) |-> s[Len(s) + 1 - i]]

-----------------------------------------------------------------------------
(* The ratios of the feature pipeline: core/forensic_extractor.py and      *)
(* core/features.py.  Durations and costs are whole numbers or None, dates *)
(* are day numbers or None; drift_ratio, cpi_trend, progress_slip and the  *)
(* risk-event probability are in thousandths, fte_ratio in hundredths.     *)

\* a / b of Python, scaled: ZeroDivisionError when b is zero
Div(a, scale, b) == IF b = 0 THEN Raise("ZeroDivisionError") ELSE Return((a * scale) \div b)

\* x or 0.0
OrZero(x) == IF x = None THEN 0 ELSE x[1]

calculate_drift_velocity_Unguarded(activity) ==
    LET baseline == OrZero(activity.baseline_duration)
        planned == OrZero(activity.planned_duration)
        quotient == Div(planned - baseline, Frac, baseline)
    IN  IF quotient.raised THEN quotient
        ELSE Return([drift_ratio |-> quotient.value, drift_adjusted_remaining |-> 0, mode_shift_factor |-> quotient.value])

\* forensic_extractor.py:24-58
calculate_drift_velocity(activity) ==
    LET baseline == OrZero(activity.baseline_duration)
        planned == OrZero(activity.planned_duration)
        remaining == OrZero(activity.remaining_duration)
        quotient == IF baseline > 0 THEN Div(planned - baseline, Frac, baseline) ELSE Return(0)
        drift_ratio == quotient.value
    IN  IF quotient.raised THEN quotient
        ELSE Return([drift_ratio |-> drift_ratio,
                     drift_adjusted_remaining |-> IF remaining > 0 THEN remaining * (Frac + drift_ratio) ELSE remaining * Frac,
                     mode_shift_factor |-> drift_ratio])

\* forensic_extractor.py:61-95
calculate_cost_performance(activity) ==
    LET planned_cost == OrZero(activity.planned_cost)
        actual_cost == OrZero(activity.actual_cost_to_date)
        quotient == IF actual_cost > 0 THEN Div(planned_cost, Frac, actual_cost) ELSE Return(Frac)
        cpi_trend == quotient.value
    IN  IF quotient.raised THEN quotient
        ELSE Return([cpi_trend |-> cpi_trend,
                     cost_variance |-> actual_cost - planned_cost,
                     risk_event_probability |-> IF cpi_trend < 900 THEN Min({300, (900 - cpi_trend) * 2}) ELSE 0])

\* forensic_extractor.py:98-113
extract_forensic_features(activity) ==
    LET drift_data == calculate_drift_velocity(activity)
        cost_data == calculate_cost_performance(activity)
    IN  IF drift_data.raised THEN drift_data
        ELSE IF cost_data.raised THEN cost_data
        ELSE Return([drift_velocity |-> drift_data.value, cost_performance |-> cost_data.value])

\* features.py:155-181
ProgressSlip(activity, reference_date) ==
    IF activity.planned_start # None /\ activity.planned_finish # None /\ activity.percent_complete # None
    THEN LET planned_start == activity.planned_start[1]
             planned_finish == activity.planned_finish[1]
             time_window == planned_finish - planned_start
             numerator_time == Min({reference_date, planned_finish})
             elapsed_time == Max({0, numerator_time - planned_start})
             quotient == Div(elapsed_time, Frac, time_window)
             expected_progress == Min({Frac, Max({0, quotient.value})})
             actual_progress == activity.percent_complete[1] * 10
         IN  IF time_window > 0
             THEN IF quotient.raised THEN quotient ELSE Return(Max({0, expected_progress - actual_progress}))
             ELSE Return(0)
    ELSE Return(0)

\* features.py:233-238
FteRatio(activity) ==
    IF activity.resource_max_fte # None /\ activity.resource_max_fte # Some(0) /\ activity.resource_max_fte[1] > 0
    THEN Div(OrZero(activity.fte_allocation), Pct, activity.resource_max_fte[1])
    ELSE Return(0)

\* features.py:26-325, the features that are ratios
compute_features(activity, reference_date) ==
    LET progress_slip == ProgressSlip(activity, reference_date)
        fte_ratio == FteRatio(activity)
        forensic_features == extract_forensic_features(activity)
    IN  IF progress_slip.raised THEN progress_slip
        ELSE IF fte_ratio.raised THEN fte_ratio
        ELSE IF forensic_features.raised THEN forensic_features
        ELSE Return([activity_id |-> activity.activity_id,
                     progress_slip |-> progress_slip.value,
                     fte_ratio |-> fte_ratio.value,
                     resource_overbooked |-> fte_ratio.value > Pct,
                     drift_velocity |-> forensic_features.value.drift_velocity,
                     cost_performance |-> forensic_features.value.cost_performance])

(* SpecFeat: compute_features on one activity whose fields are missing,    *)
(* zero or positive, at a reference date before, within or after its       *)
(* planned window.                                                         *)

FeatActivities ==
    [ activity_id : {"A-001"},
      baseline_duration : {None, Some(0), Some(5), Some(10)},
      planned_duration : {None, Some(0), Some(8)},
      remaining_duration : {None, Some(4)},
      planned_cost : {None, Some(1000)},
      actual_cost_to_date : {None, Some(0), Some(1250)},
      fte_allocation : {None, Some(50)},
      resource_max_fte : {None, Some(0), Some(100)},
      planned_start : {None, Some(10)},
      planned_finish : {None, Some(10), Some(20)},
      percent_complete : {None, Some(30)} ]

ReferenceDates == {15, 25}

FeatInit ==
    /\ feat_pc = "new"
    /\ feat_activity \in {Some(a) : a \in FeatActivities}
    /\ feat_reference \in {Some(d) : d \in ReferenceDates}
    /\ feat_result = None
    /\ CPMIdle /\ ModIdle /\ MCIdle /\ CacheIdle /\ RiskIdle /\ DurIdle /\ LoadIdle /\ ClusterIdle /\ SkillIdle /\ TwiceIdle /\ GraphIdle /\ SampleIdle /\ EndpointIdle /\ RisksApiIdle /\ DepthIdle /\ OverloadIdle

\* risk_pipeline.py: features = compute_features(activity, ..., reference_date=...)
ComputeFeatures ==
    /\ feat_pc = "new"
    /\ feat_result' = Some(compute_features(feat_activity[1], feat_reference[1]))
    /\ feat_pc' = "done"
    /\ UNCHANGED <<feat_activity, feat_reference>>
    /\ UNCHANGED exceptFeat

FeatNext == ComputeFeatures

SpecFeat == FeatInit /\ [][FeatNext]_vars

\* the field is missing or zero
Degenerate(x) == x = None \/ x = Some(0)

\* C21: no ratio of the feature pipeline divides by zero or raises on
\* degenerate input: a zero or missing baseline duration yields drift_ratio
\* 0, a zero or missing actual cost yields cpi_trend 1.0, a zero or missing
\* max-FTE yields the default FTE ratio 0, and a zero planned time window
\* yields progress slip 0.
C21_DegenerateRatiosAreSafe ==
    feat_pc = "done" =>
        LET a == feat_activity[1]
            r == feat_result[1]
        IN  /\ ~r.raised
            /\ Degenerate(a.baseline_duration) => r.value.drift_velocity.drift_ratio = 0
            /\ Degenerate(a.actual_cost_to_date) => r.value.cost_performance.cpi_trend = Frac
            /\ Degenerate(a.resource_max_fte) => r.value.fte_ratio = 0
            /\ (a.planned_start # None /\ a.planned_start = a.planned_finish) => r.value.progress_slip = 0

\* an activity with a zero baseline, no actual cost, a zero max-FTE and a
\* zero planned window has been given its features
C21_Witness ==
    /\ feat_pc = "done"
    /\ feat_activity[1].baseline_duration = Some(0)
    /\ feat_activity[1].planned_duration = Some(8)
    /\ feat_activity[1].actual_cost_to_date = None
    /\ feat_activity[1].resource_max_fte = Some(0)
    /\ feat_activity[1].planned_start = Some(10)
    /\ feat_activity[1].planned_finish = Some(10)
    /\ feat_activity[1].percent_complete = Some(30)
    /\ ~feat_result[1].raised
    /\ feat_result[1].value.drift_velocity.drift_ratio = 0

-----------------------------------------------------------------------------
(* Scoring the same feature set twice: RuleBasedRiskModel.predict,          *)
(* core/risk_model.py:178-243.                                              *)

ArgumentsAfterPredict_Normalising(f, project_features) ==
    [f |-> [k \in DOMAIN f |-> IF k = "fte_ratio" THEN 0 ELSE f[k]], project_features |-> project_features]

\* risk_model.py:192-243: predict and the _compute_* helpers read f and
\* project_features with .get only and keep nothing on self, so the caller's
\* dicts are after the call what they were before it
ArgumentsAfterPredict(f, project_features) == [f |-> f, project_features |-> project_features]

TwiceInit ==
    /\ tw_pc = "new"
    /\ tw_f \in {Some(f) : f \in RiskFeatureChoices}
    /\ tw_project_features \in {None} \cup {Some(l) : l \in FeatureLists}
    /\ tw_given = <<tw_f, tw_project_features>>
    /\ tw_scores = <<>>
    /\ CPMIdle /\ ModIdle /\ MCIdle /\ CacheIdle /\ RiskIdle /\ DurIdle /\ LoadIdle /\ ClusterIdle /\ SkillIdle /\ FeatIdle /\ GraphIdle /\ SampleIdle /\ EndpointIdle /\ RisksApiIdle /\ DepthIdle /\ OverloadIdle

\* one call of model.predict(f, project_features) on the caller's dicts
PredictCall(from, to) ==
    /\ tw_pc = from
    /\ tw_scores' = Append(tw_scores, predict(tw_f[1], tw_project_features))
    /\ \E after \in {ArgumentsAfterPredict(tw_f[1], tw_project_features)} :
         /\ tw_f' = Some(after.f)
         /\ tw_project_features' = after.project_features
    /\ tw_pc' = to
    /\ UNCHANGED tw_given
    /\ UNCHANGED exceptTwice

PredictFirst == PredictCall("new", "once")

PredictAgain == PredictCall("once", "twice")

TwiceNext == PredictFirst \/ PredictAgain

SpecTwice == TwiceInit /\ [][TwiceNext]_vars

-----------------------------------------------------------------------------
(* SpecGraph: DigitalTwin(activities) on activities that carry both a       *)
(* predecessor list and a successor list (csv_connector.py:214-236 fills    *)
(* each from its own column).                                               *)

MaxGraphActs == 2

PredecessorLists(n) == {<<>>, <<"", ActIds[1]>>} \cup {<<ActIds[i]>> : i \in 1..n}

SuccessorLists(n) == {<<>>} \cup {<<ActIds[i]>> : i \in 1..n}

GraphProjects(n) ==
    {[i \in 1..n |-> [MkActivity(ActIds[i], pr[i], None) EXCEPT !.successors = su[i]]] : pr \in [1..n -> PredecessorLists(n)], su \in [1..n -> SuccessorLists(n)]}

GraphInit ==
    /\ graph_pc = "new"
    /\ graph_activities \in UNION {GraphProjects(n) : n \in 1..MaxGraphActs}
    /\ graph_twin = None
    /\ CPMIdle /\ ModIdle /\ MCIdle /\ CacheIdle /\ RiskIdle /\ DurIdle /\ LoadIdle /\ ClusterIdle /\ SkillIdle /\ FeatIdle /\ TwiceIdle /\ SampleIdle /\ EndpointIdle /\ RisksApiIdle /\ DepthIdle /\ OverloadIdle

\* digital_twin.py:14-46
GraphBuildTwin ==
    /\ graph_pc = "new"
    /\ \E r \in {DigitalTwin(graph_activities)} :
         /\ graph_pc' = IF r.raised THEN "raised" ELSE "built"
         /\ graph_twin' = IF r.raised THEN None ELSE Some(r.value)
    /\ UNCHANGED graph_activities
    /\ UNCHANGED exceptGraph

GraphNext == GraphBuildTwin

SpecGraph == GraphInit /\ [][GraphNext]_vars

\* C23: the dependency graph is built from both dependency lists: for every
\* activity a, the graph contains an edge p -> a for each non-empty
\* identifier p in a's predecessor list and an edge a -> s for each
\* identifier s in a's successor list.
C23_GraphHasEdgesOfBothLists ==
    graph_pc = "built" =>
        \A i \in 1..Len(graph_activities) :
            LET a == graph_activities[i]
            IN  /\ \A p \in Range(a.predecessors) : Strip(p) # "" => <<p, a.activity_id>> \in graph_twin[1].graph.edges
                /\ \A s \in Range(a.successors) : <<a.activity_id, s>> \in graph_twin[1].graph.edges

-----------------------------------------------------------------------------
(* SpecSample: one draw of simulate_activity_duration for one activity, on  *)
(* the standard path (no parameters) and on the forensic path, over base    *)
(* durations from a twentieth of a day to three days, mode shifts between   *)
(* -0.95 (a plan shrunk to a twentieth of its baseline) and +0.3, and       *)
(* variance multipliers 1 and 5.                                            *)

SampleDurations == {Some(MinDuration \div 2), Some(MinDuration), Some(Day), Some(3 * Day)}

SampleActivities ==
    {[MkActivity("A", <<>>, Some(3 * Day)) EXCEPT !.remaining_duration = d, !.risk_probability = p, !.risk_delay_impact_days = 2 * Day] : d \in SampleDurations, p \in {0, 50}}

ModeShiftChoices == {0 - 95, 0 - 50, 0, 30}

SampleParams(activity) ==
    {[mode_shift_factor |-> TotalModeShift(drift, 0), variance_multiplier |-> v * Pct * Pct * Pct, failure_probability |-> fp, base_duration |-> BaseDuration(activity)] : drift \in ModeShiftChoices, v \in {1, 5}, fp \in {0, 30}}

SampleInit ==
    /\ sm_pc = "new"
    /\ sm_activity \in {Some(a) : a \in SampleActivities}
    /\ sm_params \in {None} \cup {Some(p) : p \in SampleParams(sm_activity[1])}
    /\ sm_rng \in RngStates
    /\ sm_drawn = None
    /\ CPMIdle /\ ModIdle /\ MCIdle /\ CacheIdle /\ RiskIdle /\ DurIdle /\ LoadIdle /\ ClusterIdle /\ SkillIdle /\ FeatIdle /\ TwiceIdle /\ GraphIdle /\ EndpointIdle /\ RisksApiIdle /\ DepthIdle /\ OverloadIdle

\* mc_forecaster.py:267-269: simulate_activity_duration(activity, 1, params)[0]
SampleDraw ==
    /\ sm_pc = "new"
    /\ sm_drawn' = Some(simulate_activity_duration(sm_activity[1], sm_params, sm_rng))
    /\ sm_pc' = "drawn"
    /\ UNCHANGED <<sm_activity, sm_params, sm_rng>>
    /\ UNCHANGED exceptSample

SampleNext == SampleDraw

SpecSample == SampleInit /\ [][SampleNext]_vars

\* C24: for every activity and every parameter set the pipeline can produce
\* (any base duration above zero, any mode shift from drift plus archetype,
\* any variance multiplier), the parameters passed to the triangular sampler
\* satisfy left <= mode <= right on the standard and on the forensic path,
\* so sampling never raises and every drawn duration is at least 0.1.
C24_SamplerParametersAreOrdered ==
    sm_pc = "drawn" => /\ ~sm_drawn[1].raised
                       /\ sm_drawn[1].value >= MinDuration

-----------------------------------------------------------------------------
(* SpecEndpoint: GET forecast and GET forecast/forensic served by           *)
(* concurrent workers while save_activities replaces the project's rows.    *)
(* A request is split where it talks to the database: it reads the          *)
(* activities (api/forecast.py:45, 168), asks the cache (52, 182), computes *)
(* (60-71, 190-262) and saves (75, 266); steps of different requests and    *)
(* save_activities (db_service.py:341-412, one step here) interleave.       *)

\* requests and saves started in one behaviour
MaxEpOps == 4

\* the workers that serve requests, each one request at a time
EpSlots == {"w1", "w2"}

\* activity data the project may hold: one activity in two versions, and a cyclic pair
EpProjects ==
    {<<MkActivity("A", <<>>, Some(3 * Day))>>,
     <<MkActivity("A", <<>>, Some(10 * Day))>>,
     <<MkActivity("A", <<"B">>, Some(3 * Day)), MkActivity("B", <<"A">>, Some(3 * Day))>>}

\* a worker that serves no request
IdleRequest ==
    [pc |-> "idle", endpoint |-> "", activities |-> <<>>, forecast |-> None,
     computed_from |-> None]

\* len(activities) if activities else 0 (api/forecast.py:46, 169)
ActivityCount(activities) == Len(activities)

\* the project has a dependency cycle: two activities that precede each other
Cyclic(activities) ==
    \E i, j \in 1..Len(activities) :
        /\ activities[i].activity_id \in Range(activities[j].predecessors)
        /\ activities[j].activity_id \in Range(activities[i].predecessors)

EndpointInit ==
    /\ ep_db \in EpProjects
    /\ ep_twins = EmptyDict
    /\ ep_cache = None
    /\ ep_ghost = None
    /\ ep_req = [s \in EpSlots |-> IdleRequest]
    /\ ep_response = None
    /\ ep_steps = 0
    /\ CPMIdle /\ ModIdle /\ MCIdle /\ CacheIdle /\ RiskIdle /\ DurIdle /\ LoadIdle /\ ClusterIdle /\ SkillIdle /\ FeatIdle /\ TwiceIdle /\ GraphIdle /\ SampleIdle /\ RisksApiIdle /\ DepthIdle /\ OverloadIdle

\* db_service.py:341-412: invalidate_project_cache, then the rows are replaced
EpSaveActivities ==
    /\ ep_steps < MaxEpOps
    /\ ep_steps' = ep_steps + 1
    /\ \E activities \in EpProjects : ep_db' = activities
    /\ ep_cache' = None
    /\ ep_ghost' = None
    /\ UNCHANGED <<ep_twins, ep_req, ep_response>>
    /\ UNCHANGED exceptEndpoint

\* api/forecast.py:44-50 and 167-180: the request reads the project's activities;
\* the forensic endpoint answers 404 when there are none
EpReadActivities(s) ==
    /\ ep_steps < MaxEpOps
    /\ ep_steps' = ep_steps + 1
    /\ ep_req[s].pc = "idle"
    /\ \E endpoint \in {"standard", "forensic"}, force_recompute \in BOOLEAN :
         IF endpoint = "forensic" /\ ep_db = <<>>
         THEN /\ ep_response' = Some([status |-> "error", exc |-> "HTTPException 404",
                                      endpoint |-> endpoint, read |-> ep_db])
              /\ UNCHANGED ep_req
         ELSE /\ ep_req' = [ep_req EXCEPT ![s] =
                               [IdleRequest EXCEPT !.pc = IF force_recompute THEN "compute"
                                                         ELSE "check",
                                                   !.endpoint = endpoint,
                                                   !.activities = ep_db]]
              /\ UNCHANGED ep_response
    /\ UNCHANGED <<ep_db, ep_twins, ep_cache, ep_ghost>>
    /\ UNCHANGED exceptEndpoint

\* api/forecast.py:183: cached_forecast and cached_forecast.get("forensic_modulation_applied")
ServesCached(endpoint, cached_forecast) ==
    /\ cached_forecast # None
    /\ endpoint = "forensic" => Get(cached_forecast[1], "forensic_modulation_applied", FALSE)

\* api/forecast.py:51-57 and 181-187: get_forecast_cache with the count the request
\* read; the function reads the activities again for the data hash
\* (cache_service.py:41-43) and deletes a row whose hash differs
EpCheckCache(s) ==
    /\ ep_req[s].pc = "check"
    /\ \E cached \in {get_forecast_cache(ep_cache, ActivityCount(ep_req[s].activities), ep_db)} :
         /\ ep_cache' = cached.cache
         /\ ep_ghost' = IF cached.cache = None THEN None ELSE ep_ghost
         /\ IF ServesCached(ep_req[s].endpoint, cached.result)
            THEN /\ ep_response' = Some([status |-> "ok", endpoint |-> ep_req[s].endpoint,
                                         from_cache |-> TRUE, forecast |-> cached.result[1],
                                         read |-> ep_req[s].activities,
                                         produced_by |-> ep_ghost[1].produced_by])
                 /\ ep_req' = [ep_req EXCEPT ![s] = IdleRequest]
            ELSE /\ ep_req' = [ep_req EXCEPT ![s].pc = "compute"]
                 /\ UNCHANGED ep_response
    /\ UNCHANGED <<ep_db, ep_twins, ep_steps>>
    /\ UNCHANGED exceptEndpoint

\* the uncertainty_params_map of the request: none on the standard endpoint
\* (api/forecast.py:65), one entry per activity read on the forensic endpoint
\* (forensic_forecast.py:48-72)
EndpointParams(endpoint, activities) ==
    IF endpoint = "forensic"
    THEN Some(ForensicParams(activities, ActivityIds(activities)))
    ELSE None

\* api/forecast.py:60-71 and 190-262: the twin of the process-wide cache, the Monte
\* Carlo forecast, the cycle warning; an exception ends the request with an error
EpCompute(s) ==
    /\ ep_req[s].pc = "compute"
    /\ \E r \in RngStartChoices :
       \E got \in {get_or_build_twin(ep_twins, ProjectId, ep_req[s].activities)} :
       \E mc \in {IF got.raised THEN Raise(got.exc)
                  ELSE ForecastWithWarnings(got.value.twin,
                          monte_carlo_forecast(got.value.twin, CacheRuns,
                              EndpointParams(ep_req[s].endpoint, ep_req[s].activities), r))} :
         /\ ep_twins' = got.value.twins
         /\ IF mc.raised
            THEN /\ ep_response' = Some([status |-> "error", exc |-> mc.exc,
                                         endpoint |-> ep_req[s].endpoint,
                                         read |-> ep_req[s].activities])
                 /\ ep_req' = [ep_req EXCEPT ![s] = IdleRequest]
            ELSE /\ ep_req' = [ep_req EXCEPT ![s].pc = "save",
                                             ![s].forecast = Some(mc.value),
                                             ![s].computed_from = Some(got.value.twin.activities)]
                 /\ UNCHANGED ep_response
    /\ UNCHANGED <<ep_db, ep_cache, ep_ghost, ep_steps>>
    /\ UNCHANGED exceptEndpoint

\* api/forecast.py:75 and 266, then the return: save_forecast_cache with the count
\* the request read; the function reads the activities again for the data hash
\* (cache_service.py:90-96) and upserts the project's one row
EpSaveForecast(s) ==
    /\ ep_req[s].pc = "save"
    /\ ep_cache' = save_forecast_cache(ep_req[s].forecast[1],
                                       ActivityCount(ep_req[s].activities), ep_db)
    /\ ep_ghost' = Some([produced_by |-> ep_req[s].endpoint,
                         read |-> ep_req[s].activities,
                         computed_from |-> ep_req[s].computed_from[1]])
    /\ ep_response' = Some([status |-> "ok", endpoint |-> ep_req[s].endpoint,
                            from_cache |-> FALSE, forecast |-> ep_req[s].forecast[1],
                            read |-> ep_req[s].activities,
                            produced_by |-> ep_req[s].endpoint])
    /\ ep_req' = [ep_req EXCEPT ![s] = IdleRequest]
    /\ UNCHANGED <<ep_db, ep_twins, ep_steps>>
    /\ UNCHANGED exceptEndpoint

EndpointNext ==
    \/ EpSaveActivities
    \/ \E s \in EpSlots : EpReadActivities(s)
    \/ \E s \in EpSlots : EpCheckCache(s)
    \/ \E s \in EpSlots : EpCompute(s)
    \/ \E s \in EpSlots : EpSaveForecast(s)

SpecEndpoint == EndpointInit /\ [][EndpointNext]_vars

\* C25: standard and forensic forecasts are kept apart in the cache: a result
\* served from cache by the standard endpoint was produced by the standard
\* computation, and a result served from cache by the forensic endpoint was
\* produced by the forensic computation.
C25_CachedResultIsOfItsEndpoint ==
    (ep_response # None /\ ep_response[1].status = "ok" /\ ep_response[1].from_cache)
        => ep_response[1].produced_by = ep_response[1].endpoint

\* the forensic endpoint is never answered from the cache: the dict that
\* get_forecast_cache returns has no forensic_modulation_applied key
ForensicNeverServesCached ==
    (ep_response # None /\ ep_response[1].status = "ok" /\ ep_response[1].from_cache)
        => ep_response[1].endpoint = "standard"

\* C26: under concurrent requests, the activity count and the data hash stored
\* with a cached forecast are those of the activity snapshot the request read
\* and computed the forecast from, even when the project's activities are
\* replaced between the request reading its activities and saving its result.
C26_CacheRowDescribesItsSnapshot ==
    ep_cache # None =>
        /\ ep_cache[1].activity_count = ActivityCount(ep_ghost[1].read)
        /\ ep_cache[1].data_hash = CurrentDataHash(ep_ghost[1].read)

\* the count half of C26 holds: the stored count is the one the request read
CacheRowCountIsOfItsSnapshot ==
    ep_cache # None => ep_cache[1].activity_count = ActivityCount(ep_ghost[1].read)

\* C27: for a project whose dependency graph has cycles, every response of the
\* forecast endpoint carries the cycle warning in its warnings list, whether
\* the forecast was freshly computed or served from cache.
C27_CyclicProjectCarriesWarning ==
    (ep_response # None /\ ep_response[1].status = "ok" /\ Cyclic(ep_response[1].read))
        => /\ "warnings" \in DOMAIN ep_response[1].forecast
           /\ ep_response[1].forecast.warnings # <<>>

-----------------------------------------------------------------------------
(* SpecRisksApi: GET /projects/{id}/risks with limits of any size, and      *)
(* save_activities between requests: api/risks.py:21-155,                   *)
(* cache_service.py:133-274.  An activity is its id and the feature         *)
(* dictionary compute_features gives it; the rule-based model scores it     *)
(* (config.py:56, USE_ML_MODEL defaults to false).                          *)

\* number of activities of the largest project of the risks endpoint
MaxRiskActs == 2

\* largest limit of a request (the default is 10)
MaxLimit == 3

\* requests and saves handled in one behaviour
MaxRiskRequests == 3

RiskProjects ==
    UNION {{[i \in 1..n |-> [activity_id |-> ActIds[i], features |-> fs[i]]]
              : fs \in [1..n -> RiskFeatureChoices]} : n \in 1..MaxRiskActs}

\* risk_pipeline.py:131-177 with the rule-based model: one entry per activity,
\* sorted by score, highest first
compute_project_risks(activities) ==
    LET project_features == [i \in 1..Len(activities) |-> activities[i].features]
    IN  SortByScore([i \in 1..Len(activities) |->
            [activity_id |-> activities[i].activity_id,
             risk_score |-> predict(activities[i].features, Some(project_features)),
             prediction_method |-> "rule"]])

\* risks[:limit] for a limit of 0 or more
Slice(l, limit) == SubSeq(l, 1, Min({limit, Len(l)}))

\* round(score, 1), in tenths of a point
RoundTenth(score) ==
    IF score >= 0 THEN RoundDiv(score, Point \div 10)
    ELSE 0 - RoundDiv(0 - score, Point \div 10)

\* api/risks.py:176-181
RiskLevel(score) ==
    IF score >= 70 * Point THEN "High" ELSE IF score >= 40 * Point THEN "Medium" ELSE "Low"

\* api/risks.py:158-270: one enhanced entry per entry given, in the order given
_enhance_risks_with_explanations(top_risks) ==
    [i \in 1..Len(top_risks) |->
        [activity_id |-> top_risks[i].activity_id,
         risk_score |-> RoundTenth(top_risks[i].risk_score),
         risk_level |-> RiskLevel(top_risks[i].risk_score),
         prediction_method |-> top_risks[i].prediction_method]]

\* cache_service.py:133-221 with USE_ML_MODEL false: the returned dict (None when
\* absent or invalid) and the row left
get_risks_cache(cache, current_activity_count, activities) ==
    IF cache = None THEN [result |-> None, cache |-> cache]
    ELSE IF cache[1].activity_count # current_activity_count
    THEN [result |-> None, cache |-> cache]
    ELSE IF activities # <<>> /\ cache[1].data_hash # None /\ cache[1].data_hash # Some(activities)
    THEN [result |-> None, cache |-> None]
    ELSE IF cache[1].top_risks # <<>>
            /\ cache[1].top_risks[1].prediction_method \in {"ml", "ensemble", "ml_fallback"}
    THEN [result |-> None, cache |-> None]
    ELSE [result |-> Some([total_risks |-> cache[1].total_risks,
                           top_risks |-> cache[1].top_risks]),
          cache |-> cache]

\* cache_service.py:224-274: the row after the upsert; the data hash is a digest
\* of the activities read at save time, modelled by what is digested
save_risks_cache(risks_data, activity_count, activities) ==
    Some([total_risks |-> risks_data.total_risks, top_risks |-> risks_data.top_risks,
          activity_count |-> activity_count,
          data_hash |-> IF activities # <<>> THEN Some(activities) ELSE None])

\* the top_risks of a fresh computation with the given limit (api/risks.py:76-82)
FreshTopRisks(activities, limit) ==
    _enhance_risks_with_explanations(Slice(compute_project_risks(activities), limit))

RisksApiInit ==
    /\ ra_project \in RiskProjects
    /\ ra_cache = None
    /\ ra_response = None
    /\ ra_requests = 0
    /\ CPMIdle /\ ModIdle /\ MCIdle /\ CacheIdle /\ RiskIdle /\ DurIdle /\ LoadIdle /\ ClusterIdle /\ SkillIdle /\ FeatIdle /\ TwiceIdle /\ GraphIdle /\ SampleIdle /\ EndpointIdle /\ DepthIdle /\ OverloadIdle

\* db_service.py:341-412: invalidate_project_cache, then the rows are replaced
RaSaveActivities ==
    /\ ra_requests < MaxRiskRequests
    /\ ra_requests' = ra_requests + 1
    /\ \E activities \in RiskProjects : ra_project' = activities
    /\ ra_cache' = None
    /\ ra_response' = None
    /\ UNCHANGED exceptRisksApi

\* api/risks.py:21-155: GET risks, the whole handler
GetRisks ==
    /\ ra_requests < MaxRiskRequests
    /\ ra_requests' = ra_requests + 1
    /\ \E limit \in 1..MaxLimit, force_recompute \in BOOLEAN :
       \E cached \in {IF force_recompute THEN [result |-> None, cache |-> ra_cache]
                      ELSE get_risks_cache(ra_cache, Len(ra_project), ra_project)} :
         IF cached.result # None
         THEN /\ ra_response' = Some([total_risks |-> cached.result[1].total_risks,
                                      top_risks |-> Slice(cached.result[1].top_risks, limit),
                                      limit |-> limit, from_cache |-> TRUE])
              /\ UNCHANGED ra_cache
         ELSE \E scored \in {compute_project_risks(ra_project)} :
              \E enhanced_risks \in {_enhance_risks_with_explanations(Slice(scored, limit))} :
                /\ ra_cache' = save_risks_cache([total_risks |-> Len(scored),
                                                 top_risks |-> enhanced_risks],
                                                Len(ra_project), ra_project)
                /\ ra_response' = Some([total_risks |-> Len(scored),
                                        top_risks |-> enhanced_risks,
                                        limit |-> limit, from_cache |-> FALSE])
    /\ UNCHANGED ra_project
    /\ UNCHANGED exceptRisksApi

RisksApiNext == RaSaveActivities \/ GetRisks

SpecRisksApi == RisksApiInit /\ [][RisksApiNext]_vars

\* C28: the risks cache holds all risks, not just the top ones: for any limit
\* L, a response served from cache contains the same min(L, total_risks)
\* highest-scored activities as a fresh computation with that limit,
\* regardless of the limit of the request that populated the cache.
C28_CachedRisksEqualFreshRisks ==
    (ra_response # None /\ ra_response[1].from_cache)
        => /\ Len(ra_response[1].top_risks) = Min({ra_response[1].limit, ra_response[1].total_risks})
           /\ ra_response[1].top_risks = FreshTopRisks(ra_project, ra_response[1].limit)

\* what holds instead: a response served from cache is the fresh response cut
\* to the smaller of its own limit and the limit of the request that filled the row
CachedRisksArePrefixOfFresh ==
    (ra_response # None /\ ra_response[1].from_cache)
        => ra_response[1].top_risks = Slice(FreshTopRisks(ra_project, ra_response[1].limit), Len(ra_cache[1].top_risks))

\* a fresh response has min(limit, total_risks) entries
FreshRisksAreComplete ==
    (ra_response # None /\ ~ra_response[1].from_cache)
        => Len(ra_response[1].top_risks) = Min({ra_response[1].limit, ra_response[1].total_risks})

-----------------------------------------------------------------------------
(* SpecDepth: the downstream critical depth of one activity,                *)
(* features.py:194-231.  calculate_critical_depth is recursive; its calls   *)
(* are the frames of dp_stack, pushed by a call and popped by a return, so  *)
(* that the interpreter's limit on nested calls is part of the model.  The  *)
(* visited set a call receives is a copy of its caller's after the caller   *)
(* added itself (lines 205, 215-216), so it is the set of the nodes of the  *)
(* entered frames below it.  Activities are numbered 1..n.                  *)

\* number of activities of the largest project whose every graph is tried
MaxDepthActs == 2

\* sys.getrecursionlimit() of CPython, which the repository never changes:
\* the nested calls a thread may hold, those of the callers included
RecursionLimit == 1000

\* calls on the stack when calculate_critical_depth is first called: at the
\* least compute_features itself
CallerFrames == 1

\* every graph over n activities, self-dependencies included, with every choice
\* of critical activities; activity.successors either filled like the graph
\* or left empty
SmallProjects(n) ==
    {[ids |-> 1..n, edges |-> e, critical |-> c, listed |-> l]
        : e \in SUBSET ((1..n) \X (1..n)), c \in SUBSET (1..n), l \in BOOLEAN}

\* a chain 1 -> 2 -> ... -> n of critical activities
ChainProject(n) ==
    [ids |-> 1..n, edges |-> {<<i, i + 1>> : i \in 1..(n - 1)}, critical |-> 1..n,
     listed |-> TRUE]

DepthProjects ==
    UNION {SmallProjects(n) : n \in 1..MaxDepthActs}
        \cup {ChainProject(RecursionLimit - CallerFrames), ChainProject(RecursionLimit)}

\* graph.successors(node_id)
GraphSuccessors(project, node_id) == {t \in 1..RecursionLimit : <<node_id, t>> \in project.edges}

\* activity.successors
ListedSuccessors(project, node_id) ==
    IF project.listed THEN GraphSuccessors(project, node_id) \cap project.ids ELSE {}

\* the visited set of the call about to be made: the nodes of the entered frames
Visited(stack) == {stack[i].node_id : i \in {j \in 1..Len(stack) : stack[j].entered}}

\* features.py:200-211: the frame of a call: it returns depth at once (lines
\* 202-203) or adds the node to visited and has its critical successors to go through
Frame(project, node_id, visited, depth) ==
    IF node_id \in visited \/ node_id \notin project.ids
    THEN [node_id |-> node_id, entered |-> FALSE, max_depth |-> depth, depth |-> depth, todo |-> {}]
    ELSE [node_id |-> node_id, entered |-> TRUE, max_depth |-> depth, depth |-> depth,
          todo |-> {s \in GraphSuccessors(project, node_id) : s \in project.ids /\ s \in project.critical}]

\* features.py:222-231: the calls compute_features makes for the activity
RootCalls(project, activity) ==
    IF activity \in project.critical
    THEN {[node_id |-> activity, depth |-> 0]}
    ELSE {[node_id |-> s, depth |-> 1] : s \in {t \in ListedSuccessors(project, activity) : t \in project.critical}}

DepthInit ==
    /\ dp_project \in DepthProjects
    /\ dp_activity \in IF Cardinality(dp_project.ids) <= MaxDepthActs THEN dp_project.ids ELSE {1}
    /\ dp_pending = RootCalls(dp_project, dp_activity)
    /\ dp_stack = <<>>
    /\ dp_result = 0
    /\ dp_pc = "running"
    /\ CPMIdle /\ ModIdle /\ MCIdle /\ CacheIdle /\ RiskIdle /\ DurIdle /\ LoadIdle /\ ClusterIdle /\ SkillIdle /\ FeatIdle /\ TwiceIdle /\ GraphIdle /\ SampleIdle /\ EndpointIdle /\ RisksApiIdle /\ OverloadIdle

\* features.py:223 and 230: compute_features calls calculate_critical_depth
\* with an empty visited set
DepthRootCall ==
    /\ dp_pc = "running"
    /\ dp_stack = <<>>
    /\ dp_pending # {}
    /\ \E call \in {CHOOSE c \in dp_pending : \A d \in dp_pending : c.node_id <= d.node_id} :
         /\ dp_pending' = dp_pending \ {call}
         /\ dp_stack' = <<Frame(dp_project, call.node_id, {}, call.depth)>>
    /\ UNCHANGED <<dp_project, dp_activity, dp_result, dp_pc>>
    /\ UNCHANGED exceptDepth

\* features.py:209-217: the call made for the next critical successor; it
\* raises RecursionError when the stack is full
DepthRecursiveCall ==
    /\ dp_pc = "running"
    /\ dp_stack # <<>>
    /\ dp_stack[Len(dp_stack)].todo # {}
    /\ \E top \in {dp_stack[Len(dp_stack)]} :
       \E successor_id \in {CHOOSE s \in top.todo : \A t \in top.todo : s <= t} :
         IF CallerFrames + Len(dp_stack) >= RecursionLimit
         THEN /\ dp_pc' = "raised"
              /\ UNCHANGED dp_stack
         ELSE /\ dp_stack' = Append([dp_stack EXCEPT ![Len(dp_stack)].todo = top.todo \ {successor_id}],
                                    Frame(dp_project, successor_id, Visited(dp_stack), top.depth + 1))
              /\ UNCHANGED dp_pc
    /\ UNCHANGED <<dp_project, dp_activity, dp_pending, dp_result>>
    /\ UNCHANGED exceptDepth

\* features.py:203 and 220: a call returns; its caller keeps the maximum
\* (lines 218 and 231)
DepthReturn ==
    /\ dp_pc = "running"
    /\ dp_stack # <<>>
    /\ dp_stack[Len(dp_stack)].todo = {}
    /\ \E returned \in {dp_stack[Len(dp_stack)].max_depth} :
         IF Len(dp_stack) = 1
         THEN /\ dp_stack' = <<>>
              /\ dp_result' = Max({dp_result, returned})
         ELSE /\ dp_stack' = [SubSeq(dp_stack, 1, Len(dp_stack) - 1) EXCEPT ![Len(dp_stack) - 1].max_depth = Max({@, returned})]
              /\ UNCHANGED dp_result
    /\ UNCHANGED <<dp_project, dp_activity, dp_pending, dp_pc>>
    /\ UNCHANGED exceptDepth

\* features.py:231: no call is left: downstream_critical_depth has its value
DepthDone ==
    /\ dp_pc = "running"
    /\ dp_stack = <<>>
    /\ dp_pending = {}
    /\ dp_pc' = "done"
    /\ UNCHANGED <<dp_project, dp_activity, dp_pending, dp_stack, dp_result>>
    /\ UNCHANGED exceptDepth

DepthNext == DepthRootCall \/ DepthRecursiveCall \/ DepthReturn \/ DepthDone

SpecDepth == DepthInit /\ [][DepthNext]_vars

\* the same, with the interpreter always taking the next step
FairSpecDepth == SpecDepth /\ WF_vars(DepthNext)

\* the traversal stops, with a depth or with an exception
DepthTraversalStops == <>(dp_pc \in {"done", "raised"})

\* C29: the downstream-critical-depth traversal terminates on every graph,
\* including graphs with dependency cycles among activities flagged on the
\* critical path, and the depth it returns never exceeds the number of
\* activities.
C29_DepthTraversalReturnsBoundedDepth ==
    /\ dp_pc # "raised"
    /\ dp_pc = "done" => dp_result <= Cardinality(dp_project.ids)

\* on projects whose critical chains fit the call stack the traversal returns,
\* and the depth is at most the number of activities, cycles included
DepthIsBoundedWhenReturned ==
    /\ dp_pc = "done" => dp_result <= Cardinality(dp_project.ids)
    /\ dp_pc = "raised" => Cardinality(dp_project.ids) + CallerFrames > RecursionLimit
    /\ Len(dp_stack) <= Cardinality(dp_project.ids) + 1

\* a cycle of two critical activities has been walked: the depth is 2
CriticalCycleWalked ==
    /\ dp_pc = "done"
    /\ dp_project.ids = {1, 2}
    /\ {<<1, 2>>, <<2, 1>>} \subseteq dp_project.edges
    /\ dp_project.critical = {1, 2}
    /\ dp_result = 2

-----------------------------------------------------------------------------
(* SpecOverload: _compute_resource_overload_score on the feature            *)
(* dictionaries of two activities whose FTE ratios lie between 0 and 2.1,   *)
(* in hundredths: risk_model.py:137-161                                     *)

\* largest fte_ratio scored, in hundredths
MaxFteRatio == 210

FteRatios == 0..MaxFteRatio

OverloadInit ==
    /\ ov_pc = "new"
    /\ ov_features \in {<<[fte_ratio |-> lower], [fte_ratio |-> higher]>> : lower, higher \in FteRatios}
    /\ ov_scores = <<>>
    /\ CPMIdle /\ ModIdle /\ MCIdle /\ CacheIdle /\ RiskIdle /\ DurIdle /\ LoadIdle /\ ClusterIdle /\ SkillIdle /\ FeatIdle /\ TwiceIdle /\ GraphIdle /\ SampleIdle /\ EndpointIdle /\ RisksApiIdle /\ DepthIdle

\* risk_model.py:197 and 209: the component is computed for each activity
ScoreOverload ==
    /\ ov_pc = "new"
    /\ ov_scores' = [i \in 1..Len(ov_features) |-> compute_resource_overload_score(ov_features[i])]
    /\ ov_pc' = "scored"
    /\ UNCHANGED ov_features
    /\ UNCHANGED exceptOverload

OverloadNext == ScoreOverload

SpecOverload == OverloadInit /\ [][OverloadNext]_vars

\* C30: the resource-overload component score is non-decreasing in fte_ratio
\* over its whole range, including across the 0.7, 0.9 and 1.0 thresholds:
\* an activity with a higher FTE ratio never receives a lower
\* resource-overload score than one with a lower ratio.
C30_OverloadScoreIsMonotone ==
    (ov_pc = "scored" /\ ov_features[1].fte_ratio <= ov_features[2].fte_ratio)
        => ov_scores[1] <= ov_scores[2]

\* the score is non-decreasing among ratios up to 1.0, across the 0.7 and 0.9
\* thresholds, and among ratios above 1.0
OverloadScoreIsMonotoneOnEachSide ==
    (ov_pc = "scored" /\ ov_features[1].fte_ratio <= ov_features[2].fte_ratio
        /\ (ov_features[1].fte_ratio > Pct <=> ov_features[2].fte_ratio > Pct))
        => ov_scores[1] <= ov_scores[2]

\* a resource at exactly its capacity scores 100, one a hundredth above scores 1
OverloadScoreDropsAboveCapacity ==
    (ov_pc = "scored" /\ ov_features[1].fte_ratio = Pct /\ ov_features[2].fte_ratio = Pct + 1)
        => (ov_scores[1] = 100 * Point /\ ov_scores[2] = Point)

====
